---------------------------- MODULE Spec2Model ----------------------------
(***************************************************************************)
(* A model of mgtdisklib: the container addressing of Image.py, the sector *)
(* chain and directory geometry of Disk.py and the directory entry codec   *)
(* of File.py.                                                             *)
(*                                                                         *)
(* Byte strings (Python bytes / bytearray) are modelled exactly, as a      *)
(* length and the finite map of the offsets that hold a non-zero byte:     *)
(* every offset below the length that the map leaves out holds 0.  All     *)
(* offsets are zero-based, as in the source.                               *)
(***************************************************************************)
EXTENDS Integers, Sequences, FiniteSets, TLC

VARIABLES image, disk, file, call, ret, walk, steps

vars == <<image, disk, file, call, ret, walk, steps>>

(***************************************************************************)
(* Bounds of the model (not program constants).                            *)
(***************************************************************************)
\* tracks within EdgeWidth of a side boundary are used as call inputs
EdgeWidth == 1
\* the largest track number given to next_sector
MaxTrack == 340
\* the largest number of files added to a disk
MaxFiles == 101

(***************************************************************************)
(* Python values.                                                          *)
(***************************************************************************)
None == << >>
Some(v) == <<v>>
Ok(v) == [raised |-> "None", val |-> v]
Raise(e) == [raised |-> e, val |-> None]

Min(a, b) == IF a < b THEN a ELSE b
Max(a, b) == IF a > b THEN a ELSE b

\* bytes(n) / bytearray(n): n zero bytes
Zeros(n) == [size |-> n, nz |-> [i \in {} |-> 0]]
\* bytes((b0, b1, ...))
FromSeq(s) ==
  [size |-> Len(s),
   nz |-> [i \in {k - 1 : k \in {j \in 1..Len(s) : s[j] # 0}} |-> s[i + 1]]]
\* data[i] for 0 <= i < len(data)
At(b, i) == IF i \in DOMAIN b.nz THEN b.nz[i] ELSE 0
\* the map f moved up by d offsets
Shift(f, d) == [i \in {j + d : j \in DOMAIN f} |-> f[i - d]]
\* data[lo:hi] for lo, hi >= 0 (Python clips both to the length)
Slice(b, lo, hi) ==
  LET l == Min(lo, b.size)
      h == Max(l, Min(hi, b.size))
  IN  [size |-> h - l,
       nz |-> [i \in {j - l : j \in DOMAIN b.nz \cap (l..(h - 1))}
                 |-> b.nz[i + l]]]
\* a + b
Cat(a, b) == [size |-> a.size + b.size, nz |-> Shift(b.nz, a.size) @@ a.nz]
\* data[lo:hi] = v on a bytearray, lo, hi >= 0: the clipped range is replaced
\* by v whatever v's length, the bytes after it moving by the difference d
SetSlice(b, lo, hi, v) ==
  LET l == Min(lo, b.size)
      h == Max(l, Min(hi, b.size))
      d == v.size - (h - l)
      kept == DOMAIN b.nz \ (l..(h - 1))
      old == IF kept = DOMAIN b.nz THEN b.nz ELSE [i \in kept |-> b.nz[i]]
      moved == IF d = 0 THEN old
               ELSE [i \in {IF k < l THEN k ELSE k + d : k \in kept}
                       |-> IF i < l THEN old[i] ELSE old[i - d]]
  IN  [size |-> b.size + d, nz |-> Shift(v.nz, l) @@ moved]

(***************************************************************************)
(* Image.py                                                                *)
(***************************************************************************)
\* Image.__init__ (and the subclasses, which inherit it)
NewImage(kind, spt) ==
  [kind |-> kind, spt |-> spt, data |-> Zeros(80 * 2 * spt * 512)]

\* Image.open, after the file is read (and unzipped): the container kind and
\* spt are decided by the length alone
ImageOpen(data) ==
  IF data.size = 819200 \/ data.size = 737280
  THEN Ok([kind |-> "MGT", spt |-> data.size \div (80 * 2 * 512), data |-> data])
  ELSE IF data.size = 819222 \/ data.size = 737302
  THEN Ok([kind |-> "SAD", spt |-> (data.size - 22) \div (80 * 2 * 512),
           data |-> data])
  ELSE IF data.size = 860416 \/ data.size = 778496
  THEN Ok([kind |-> "EDSK",
           spt |-> (((data.size - 256) \div (80 * 2)) - 256) \div 512,
           data |-> data])
  ELSE Raise("RuntimeError")

\* the address check shared by the three sector_offset methods
InvalidLocation(spt, track, sector) ==
  track < 0 \/ (track % 128) >= 80 \/ sector < 1 \/ sector > spt

\* Image.sector_offset (MGTImage inherits it)
MGTSectorOffset(img, track, sector) ==
  IF InvalidLocation(img.spt, track, sector) THEN Raise("ValueError")
  ELSE Ok(((track % 128) * img.spt * 2 + (track \div 128) * img.spt
           + (sector - 1)) * 512)

\* mutant: the 22-byte header is forgotten
SADSectorOffset_NoHeader(img, track, sector) ==
  IF InvalidLocation(img.spt, track, sector) THEN Raise("ValueError")
  ELSE Ok((((track \div 128) * 80 + (track % 128)) * img.spt
           + (sector - 1)) * 512)

\* SADImage.sector_offset
SADSectorOffset(img, track, sector) ==
  IF InvalidLocation(img.spt, track, sector) THEN Raise("ValueError")
  ELSE Ok(22 + (((track \div 128) * 80 + (track % 128)) * img.spt
                + (sector - 1)) * 512)

\* EDSKImage.sector_offset: the list comprehension reads the spt sector-ID
\* bytes of the track header (IndexError past the end of the buffer), and
\* list.index raises ValueError when none equals the sector
EDSKSectorOffset(img, track, sector) ==
  IF InvalidLocation(img.spt, track, sector) THEN Raise("ValueError")
  ELSE LET track_offset ==
             256 + ((track % 128) * 2 + (track \div 128)) * (256 + img.spt * 512)
           idAt(i) == track_offset + 26 + i * 8
           found == {i \in 0..(img.spt - 1) : At(img.data, idAt(i)) = sector}
       IN  IF idAt(img.spt - 1) >= img.data.size THEN Raise("IndexError")
           ELSE IF found = {} THEN Raise("ValueError")
           ELSE Ok(track_offset + 256
                   + (CHOOSE i \in found : \A j \in found : i <= j) * 512)

\* method dispatch on the container class
SectorOffset(img, track, sector) ==
  CASE img.kind = "MGT" -> MGTSectorOffset(img, track, sector)
    [] img.kind = "SAD" -> SADSectorOffset(img, track, sector)
    [] img.kind = "EDSK" -> EDSKSectorOffset(img, track, sector)

\* Image.read_sector
ReadSector(img, track, sector) ==
  LET off == SectorOffset(img, track, sector)
  IN  IF off.raised # "None" THEN off
      ELSE Ok(Slice(img.data, off.val, off.val + 512))

\* Image.write_sector: the value is the container after the call
WriteSector(img, track, sector, data) ==
  IF data.size # 512 THEN Raise("ValueError")
  ELSE LET off == SectorOffset(img, track, sector)
       IN  IF off.raised # "None" THEN off
           ELSE Ok([img EXCEPT !.data = SetSlice(@, off.val, off.val + 512, data)])

(***************************************************************************)
(* Disk.py: chain addressing                                               *)
(***************************************************************************)
\* mutant: the step from track 79 stays on side 0
NextSector_NoSideSwitch(track, sector, spt) ==
  IF track < 0 \/ (track % 128) >= 80 \/ sector < 1 \/ sector > spt
  THEN Raise("ValueError")
  ELSE IF sector + 1 > spt THEN Ok(<<track + 1, 1>>)
       ELSE Ok(<<track, sector + 1>>)

\* Disk.next_sector
NextSector(track, sector, spt) ==
  IF track < 0 \/ (track % 128) >= 80 \/ sector < 1 \/ sector > spt
  THEN Raise("ValueError")
  ELSE IF sector + 1 > spt
       THEN Ok(<<IF track + 1 = 80 THEN 128 ELSE track + 1, 1>>)
       ELSE Ok(<<track, sector + 1>>)

(***************************************************************************)
(* File.py: data layout of a file type                                     *)
(***************************************************************************)
SPECIAL == 8
CODE == 19
UNIDOS_DIR == 12
\* File.is_contig_data_type
IsContigDataType(type) == type \in {SPECIAL, UNIDOS_DIR}
\* File.data_bytes_per_sector
DataBytesPerSector(type) == IF IsContigDataType(type) THEN 512 ELSE 510

(***************************************************************************)
(* Disk.py: file data                                                      *)
(***************************************************************************)
\* one iteration of the loop of Disk.write_data; st.raised stays set once the
\* exception has left the loop
WriteDataStep(st, type, data, i) ==
  IF st.raised # "None" THEN st
  ELSE
  LET chunk_size == DataBytesPerSector(type)
      offset == i * chunk_size
      chunk == Slice(data, offset, offset + chunk_size)
      nxt == NextSector(st.track, st.sector, st.image.spt)
  IN  IF nxt.raised # "None" THEN [st EXCEPT !.raised = "RuntimeError"]
      ELSE
      LET out == IF chunk_size = 512 THEN chunk
                 ELSE IF offset + chunk_size = data.size
                      THEN Cat(chunk, Zeros(2))
                      ELSE Cat(chunk, FromSeq(<<nxt.val[1], nxt.val[2]>>))
          wr == WriteSector(st.image, st.track, st.sector, out)
      IN  IF wr.raised # "None" THEN [st EXCEPT !.raised = wr.raised]
          ELSE [image |-> wr.val, track |-> nxt.val[1], sector |-> nxt.val[2],
                raised |-> "None"]

\* the for loop of Disk.write_data, iterations lo .. hi-1 in order.  (The
\* range is split in halves, and the first half's result is demanded,
\* {left} # {}, before the second half starts, only to keep the evaluation
\* shallow; the loops below are written the same way.)
RECURSIVE WriteDataLoop(_, _, _, _, _)
WriteDataLoop(st, type, data, lo, hi) ==
  IF hi <= lo THEN st
  ELSE IF hi = lo + 1 THEN WriteDataStep(st, type, data, lo)
  ELSE LET mid == (lo + hi) \div 2
           left == WriteDataLoop(st, type, data, lo, mid)
       IN  IF {left} # {} THEN WriteDataLoop(left, type, data, mid, hi) ELSE st

\* Disk.write_data: image is the container as the call leaves it (also when
\* it raises), track and sector the returned position
WriteData(img, type, track, sector, data) ==
  WriteDataLoop([image |-> img, track |-> track, sector |-> sector,
                 raised |-> "None"],
                type, data, 0, data.size \div DataBytesPerSector(type))

\* one iteration of the loop bodies of Disk.read_data; st.stop is set once
\* an exception has left the loop (the except clause then returns st.data);
\* st.reads counts the sectors read
ReadDataStep(st, img, type) ==
  IF st.stop THEN st
  ELSE
  LET rd == ReadSector(img, st.track, st.sector)
  IN  IF rd.raised # "None" THEN [st EXCEPT !.stop = TRUE]
      ELSE IF IsContigDataType(type)
      THEN LET nxt == NextSector(st.track, st.sector, img.spt)
               got == [st EXCEPT !.data = Cat(@, rd.val), !.reads = @ + 1]
           IN  IF nxt.raised # "None" THEN [got EXCEPT !.stop = TRUE]
               ELSE [got EXCEPT !.track = nxt.val[1], !.sector = nxt.val[2]]
      ELSE LET chunk == rd.val
               cut == Max(0, chunk.size - 2)
               got == [st EXCEPT !.data = Cat(@, Slice(chunk, 0, cut)),
                                 !.reads = @ + 1]
           IN  \* track, sector = chunk[-2:] needs exactly two bytes
               IF chunk.size - cut # 2 THEN [got EXCEPT !.stop = TRUE]
               ELSE [got EXCEPT !.track = At(chunk, cut),
                                !.sector = At(chunk, cut + 1)]

\* the for loops of Disk.read_data, iterations lo .. hi-1
RECURSIVE ReadDataLoop(_, _, _, _, _)
ReadDataLoop(st, img, type, lo, hi) ==
  IF hi <= lo THEN st
  ELSE IF hi = lo + 1 THEN ReadDataStep(st, img, type)
  ELSE LET mid == (lo + hi) \div 2
           left == ReadDataLoop(st, img, type, lo, mid)
       IN  IF {left} # {} THEN ReadDataLoop(left, img, type, mid, hi) ELSE st

\* Disk.read_data: .data is the returned value
ReadData(img, type, sectors, track, sector) ==
  ReadDataLoop([data |-> Zeros(0), track |-> track, sector |-> sector,
                stop |-> FALSE, reads |-> 0],
               img, type, 0, sectors)

(***************************************************************************)
(* Disk.py: directory geometry                                             *)
(***************************************************************************)
\* mutant: the sector is taken from the index modulo spt
DirPosition_SectorModSpt(index, spt) ==
  <<index \div (spt * 2), 1 + (index % spt), (index % 2) * 256>>

\* Disk.dir_position
DirPosition(index, spt) ==
  <<index \div (spt * 2), 1 + (index % (spt * 2)) \div 2, (index % 2) * 256>>

\* Disk.read_dir
ReadDir(img, index) ==
  IF index < 0 THEN Raise("IndexError")
  ELSE LET pos == DirPosition(index, img.spt)
           rd == ReadSector(img, pos[1], pos[2])
       IN  IF rd.raised # "None" THEN rd
           ELSE Ok(Slice(rd.val, pos[3], pos[3] + 256))

\* mutant: the sector is written with the entry alone, without the other
\* entry that it holds
WriteDir_EntryAlone(img, index, entry) ==
  IF index < 0 THEN Raise("IndexError")
  ELSE IF entry.size # 256 THEN Raise("ValueError")
  ELSE LET pos == DirPosition(index, img.spt)
           rd == ReadSector(img, pos[1], pos[2])
       IN  IF rd.raised # "None" THEN rd
           ELSE WriteSector(img, pos[1], pos[2],
                            SetSlice(Zeros(512), pos[3], pos[3] + 256, entry))

\* Disk.write_dir: the value is the container after the call
WriteDir(img, index, entry) ==
  IF index < 0 THEN Raise("IndexError")
  ELSE IF entry.size # 256 THEN Raise("ValueError")
  ELSE LET pos == DirPosition(index, img.spt)
           rd == ReadSector(img, pos[1], pos[2])
       IN  IF rd.raised # "None" THEN rd
           ELSE WriteSector(img, pos[1], pos[2],
                            SetSlice(rd.val, pos[3], pos[3] + 256, entry))

(***************************************************************************)
(* Inputs of the calls.                                                    *)
(***************************************************************************)
\* sectors per track of the containers ("9 or 10 observed")
Spts == {9, 10}
\* directory track counts a decoded disk can have (Disk.from_image clamps)
DirTracks == 4..39
NoCall == [op |-> "none"]
NoRet == [raised |-> "None", val |-> None]

(***************************************************************************)
(* SpecWalk: Disk.next_sector, called with any arguments, and iterated     *)
(* from the first data sector until it fails.                              *)
(*   walk = [spt, dir_tracks, visited, track, sector, failed]: the         *)
(*   positions the iteration's calls succeeded from, in order, and the     *)
(*   position of the call that failed.                                     *)
(***************************************************************************)
\* one step of the iteration: the next position, until the call fails
IterateStep(st, spt) ==
  IF st.failed THEN st
  ELSE LET r == NextSector(st.track, st.sector, spt)
       IN  IF r.raised # "None" THEN [st EXCEPT !.failed = TRUE]
           ELSE [st EXCEPT !.visited = Append(@, <<st.track, st.sector>>),
                           !.track = r.val[1], !.sector = r.val[2]]

\* track, sector = next_sector(track, sector, spt) repeated from
\* (dir_tracks, 1) until it raises (a container holds 160 * spt sectors, so
\* 160 * spt + 1 calls are enough to see the failure)
RECURSIVE IterateLoop(_, _, _, _)
IterateLoop(st, spt, lo, hi) ==
  IF hi <= lo THEN st
  ELSE IF hi = lo + 1 THEN IterateStep(st, spt)
  ELSE LET mid == (lo + hi) \div 2
           left == IterateLoop(st, spt, lo, mid)
       IN  IF {left} # {} THEN IterateLoop(left, spt, mid, hi) ELSE st

Iterate(dir_tracks, spt) ==
  IterateLoop([spt |-> spt, dir_tracks |-> dir_tracks, visited |-> << >>,
               track |-> dir_tracks, sector |-> 1, failed |-> FALSE],
              spt, 0, 160 * spt + 1)

InitWalk ==
  /\ walk = None
  /\ call = NoCall
  /\ ret = NoRet
  /\ image = None /\ disk = None /\ file = None /\ steps = 0

\* (the function is pure: the calls made first cover every call)
CallNextSector(track, sector, spt) ==
  /\ call = NoCall
  /\ call' = [op |-> "next_sector", track |-> track, sector |-> sector,
              spt |-> spt]
  /\ ret' = NextSector(track, sector, spt)
  /\ UNCHANGED <<walk, image, disk, file, steps>>

CallIterate(dir_tracks, spt) ==
  /\ call = NoCall
  /\ walk' = Iterate(dir_tracks, spt)
  /\ call' = [op |-> "iterate"]
  /\ ret' = NoRet
  /\ UNCHANGED <<image, disk, file, steps>>

NextWalk ==
  \/ \E spt \in Spts : \E track \in (-1)..MaxTrack : \E sector \in 0..(spt + 1) :
       CallNextSector(track, sector, spt)
  \/ \E spt \in Spts : \E dir_tracks \in DirTracks : CallIterate(dir_tracks, spt)

SpecWalk == InitWalk /\ [][NextWalk]_vars

(***************************************************************************)
(* C4                                                                      *)
(***************************************************************************)
\* the zero-based place of a data sector in the order side 0 tracks
\* dir_tracks..79, then side 1 tracks 128..207
C4_DataIndex(dir_tracks, spt, track, sector) ==
  ((IF track < 80 THEN track ELSE track - 48) - dir_tracks) * spt + (sector - 1)

C4_IsDataSector(dir_tracks, spt, track, sector) ==
  /\ track \in dir_tracks..79 \cup 128..207
  /\ sector \in 1..spt

\* C4: next_sector(track, sector, spt) is (track, sector+1) when sector < spt
\* and otherwise (track+1, 1) with 128 after 79 ((207, spt) gives (208, 1));
\* it raises ValueError exactly when track < 0, (track & 0x7f) >= 80,
\* sector < 1 or sector > spt.  Iterated from (dir_tracks, 1) it visits
\* (160 - dir_tracks) * spt positions before the first failure, the k-th of
\* them the data sector of index k - 1: every data sector exactly once.
C4_NextSector ==
  /\ call.op = "next_sector" =>
       LET bad == \/ call.track < 0 \/ (call.track % 128) >= 80
                  \/ call.sector < 1 \/ call.sector > call.spt
       IN  /\ (ret.raised = "ValueError") <=> bad
           /\ ~bad =>
                /\ ret.raised = "None"
                /\ ret.val = IF call.sector < call.spt
                             THEN <<call.track, call.sector + 1>>
                             ELSE <<IF call.track = 79 THEN 128
                                    ELSE call.track + 1, 1>>
  /\ call.op = "iterate" =>
       /\ walk.failed
       /\ Len(walk.visited) = (160 - walk.dir_tracks) * walk.spt
       /\ \A k \in 1..Len(walk.visited) :
            /\ C4_IsDataSector(walk.dir_tracks, walk.spt,
                               walk.visited[k][1], walk.visited[k][2])
            /\ C4_DataIndex(walk.dir_tracks, walk.spt,
                            walk.visited[k][1], walk.visited[k][2]) = k - 1
       /\ walk.track = 208 /\ walk.sector = 1

\* the iteration from (4, 1) with spt 10 has failed at (208, 1), after it
\* crossed from side 0 to side 1
C4_Witness ==
  /\ call.op = "iterate"
  /\ walk.failed
  /\ walk.dir_tracks = 4 /\ walk.spt = 10 /\ Len(walk.visited) = 1560
  /\ walk.visited[760] = <<79, 10>> /\ walk.visited[761] = <<128, 1>>

(***************************************************************************)
(* SpecImage: one container, constructed empty or opened from bytes, and   *)
(* the calls of sector_offset, read_sector and write_sector on it.         *)
(***************************************************************************)
Kinds == {"MGT", "SAD", "EDSK"}
\* track numbers around the ends of the two sides (0, 80, 128, 208) and of
\* the numbers that repeat them with a higher bit set (256, 336)
TrackInputs == {b + d : b \in {0, 80, 128, 208, 256, 336},
                        d \in (-EdgeWidth)..EdgeWidth}
SectorInputs(spt) == 0..(spt + 1)
\* a sector with its first and last bytes set
MarkedSector == [size |-> 512, nz |-> (0 :> 229) @@ (511 :> 1)]
WriteInputs == {Zeros(512), MarkedSector, Zeros(511), Zeros(513), Zeros(0)}

\* the sector-ID byte an opened extended container holds at place i of the
\* track of index idx: in order, skewed by the track, with ID 2 replaced by
\* an ID no request names, or with ID 1 twice
EDSKId(variant, spt, idx, i) ==
  CASE variant = "seq" -> i + 1
    [] variant = "skew" -> ((i + idx) % spt) + 1
    [] variant = "hole" -> IF i = 1 THEN 65 ELSE i + 1
    [] variant = "dup" -> IF i = 1 THEN 1 ELSE i + 1
EDSKVariants == {"seq", "skew", "hole", "dup"}
\* the bytes of an extended container whose track headers hold those IDs
EDSKBytes(variant, spt) ==
  [size |-> 256 + 160 * (256 + spt * 512),
   nz |-> [o \in {256 + idx * (256 + spt * 512) + 26 + i * 8 :
                    idx \in 0..159, i \in 0..(spt - 1)}
             |-> LET idx == (o - 256) \div (256 + spt * 512)
                     i == (((o - 256) % (256 + spt * 512)) - 26) \div 8
                 IN  EDSKId(variant, spt, idx, i)]]
\* the byte strings given to Image.open: the supported sizes, and one more
OpenInputs ==
  {Zeros(n) : n \in {819200, 737280, 819222, 737302, 819201}}
    \cup {EDSKBytes(v, spt) : v \in EDSKVariants, spt \in Spts}

InitImage ==
  /\ image = NewImage("MGT", 10)
  /\ call = NoCall
  /\ ret = NoRet
  /\ disk = None /\ file = None /\ walk = None /\ steps = 0

Construct(kind, spt) ==
  /\ call = NoCall
  /\ image' = NewImage(kind, spt)
  /\ call' = [op |-> "construct"]
  /\ ret' = NoRet
  /\ UNCHANGED <<disk, file, walk, steps>>

Open(data) ==
  /\ call = NoCall
  /\ LET r == ImageOpen(data)
     IN  /\ image' = IF r.raised = "None" THEN r.val ELSE image
         /\ ret' = [raised |-> r.raised, val |-> None]
  /\ call' = [op |-> "open"]
  /\ UNCHANGED <<disk, file, walk, steps>>

\* the calls are made on the container as constructed or opened
Fresh == call.op \in {"none", "construct", "open"} /\ ret.raised = "None"

CallSectorOffset(track, sector) ==
  /\ Fresh
  /\ call' = [op |-> "sector_offset", track |-> track, sector |-> sector]
  /\ ret' = SectorOffset(image, track, sector)
  /\ UNCHANGED <<image, disk, file, walk, steps>>

CallReadSector(track, sector) ==
  /\ Fresh
  /\ call' = [op |-> "read_sector", track |-> track, sector |-> sector]
  /\ ret' = ReadSector(image, track, sector)
  /\ UNCHANGED <<image, disk, file, walk, steps>>

CallWriteSector(track, sector, data) ==
  /\ Fresh
  /\ call' = [op |-> "write_sector", track |-> track, sector |-> sector,
              data |-> data]
  /\ LET r == WriteSector(image, track, sector, data)
     IN  /\ image' = IF r.raised = "None" THEN r.val ELSE image
         /\ ret' = [raised |-> r.raised, val |-> None]
  /\ UNCHANGED <<disk, file, walk, steps>>

NextImage ==
  \/ \E kind \in Kinds, spt \in Spts : Construct(kind, spt)
  \/ \E data \in OpenInputs : Open(data)
  \/ \E track \in TrackInputs, sector \in SectorInputs(image.spt) :
       \/ CallSectorOffset(track, sector)
       \/ CallReadSector(track, sector)
       \/ \E data \in WriteInputs : CallWriteSector(track, sector, data)

SpecImage == InitImage /\ [][NextImage]_vars

(***************************************************************************)
(* C5                                                                      *)
(***************************************************************************)
\* the start of the header of a track in an extended container
C5_TrackHeader(spt, track) ==
  256 + ((track % 128) * 2 + (track \div 128)) * (256 + spt * 512)

\* no sector-ID byte of the track, read from the buffer, is the sector
C5_NoSectorId(img, track, sector) ==
  \A i \in 0..(img.spt - 1) :
    \/ C5_TrackHeader(img.spt, track) + 26 + i * 8 >= img.data.size
    \/ At(img.data, C5_TrackHeader(img.spt, track) + 26 + i * 8) # sector

\* C5: on each container kind read_sector and write_sector raise ValueError
\* when (track & 0x7f) >= 80, track < 0 or sector is outside [1, spt], on the
\* extended kind also when no sector-ID byte of the track equals the sector,
\* and write_sector when the payload is not 512 bytes; a call that raises
\* leaves the container's buffer as it was.
C5_AddressingErrors ==
  [][call'.op \in {"read_sector", "write_sector"} =>
       LET t == call'.track
           s == call'.sector
           bad == t < 0 \/ (t % 128) >= 80 \/ s < 1 \/ s > image.spt
           noid == image.kind = "EDSK" /\ ~bad /\ C5_NoSectorId(image, t, s)
           badlen == call'.op = "write_sector" /\ call'.data.size # 512
       IN  /\ (bad \/ noid \/ badlen) => ret'.raised = "ValueError"
           /\ ret'.raised # "None" => image' = image]_vars

(***************************************************************************)
(* C6                                                                      *)
(***************************************************************************)
\* a track/sector address of the medium: side 0 tracks 0..79, side 1 tracks
\* 128..207, sectors 1..spt
C6_Valid(spt, track, sector) ==
  track \in 0..79 \cup 128..207 /\ sector \in 1..spt

C6_Matches(img, track, sector) ==
  {i \in 0..(img.spt - 1) :
     At(img.data, C5_TrackHeader(img.spt, track) + 26 + i * 8) = sector}

\* C6: for a valid address sector_offset is the stated formula of the
\* container kind (on the extended kind with k the first place of the
\* track's ID table that holds the sector), and the 512-byte ranges of two
\* different valid addresses of one container do not overlap.
C6_OffsetFormulas ==
  (call.op = "sector_offset" /\ C6_Valid(image.spt, call.track, call.sector)) =>
    LET t == call.track
        s == call.sector
        spt == image.spt
    IN  /\ image.kind = "MGT" =>
             ret = Ok(((t % 128) * spt * 2 + (t \div 128) * spt + (s - 1)) * 512)
        /\ image.kind = "SAD" =>
             ret = Ok(22 + (((t \div 128) * 80 + (t % 128)) * spt + (s - 1)) * 512)
        /\ (image.kind = "EDSK" /\ C6_Matches(image, t, s) # {}) =>
             \E k \in C6_Matches(image, t, s) :
               /\ \A j \in C6_Matches(image, t, s) : k <= j
               /\ ret = Ok(C5_TrackHeader(spt, t) + 256 + k * 512)
        /\ ret.raised = "None" =>
             \A t2 \in TrackInputs, s2 \in 1..spt :
               LET o2 == SectorOffset(image, t2, s2)
               IN  (C6_Valid(spt, t2, s2) /\ <<t2, s2>> # <<t, s>>
                      /\ o2.raised = "None")
                     => (o2.val + 512 <= ret.val \/ ret.val + 512 <= o2.val)

\* sector 2 of track 129 of an opened extended container with skewed IDs is
\* found at place 8 of the track of index 3
C6_Witness ==
  /\ call.op = "sector_offset" /\ call.track = 129 /\ call.sector = 2
  /\ image.kind = "EDSK" /\ image.spt = 10
  /\ At(image.data, 256 + 3 * 5376 + 26 + 8 * 8) = 2
  /\ At(image.data, 256 + 26) = 1 /\ At(image.data, 256 + 5376 + 26) = 2
  /\ ret = Ok(256 + 3 * 5376 + 256 + 8 * 512)

(***************************************************************************)
(* C7                                                                      *)
(***************************************************************************)
\* C7: on every container, however constructed, and for every (track,
\* sector), sector_offset raises or returns an offset with 0 <= offset and
\* offset + 512 <= len(buffer); so read_sector returns 512 bytes and
\* write_sector leaves the length of the buffer as it was.
C7_OffsetInBuffer ==
  [][/\ (call'.op = "sector_offset" /\ ret'.raised = "None") =>
          (0 <= ret'.val /\ ret'.val + 512 <= image.data.size)
     /\ (call'.op = "read_sector" /\ ret'.raised = "None") =>
          ret'.val.size = 512
     /\ call'.op = "write_sector" => image'.data.size = image.data.size]_vars

(***************************************************************************)
(* Python strings are sequences of code points.                            *)
(***************************************************************************)
\* the bytes of b as a sequence
ToSeq(b) == [i \in 1..b.size |-> At(b, i - 1)]
\* bytes.decode('ascii', errors='replace')
DecodeAscii(b) == [i \in 1..b.size |-> IF At(b, i - 1) < 128 THEN At(b, i - 1) ELSE 65533]
\* str.encode('ascii', errors='replace')
EncodeAscii(str) == FromSeq([i \in 1..Len(str) |-> IF str[i] < 128 THEN str[i] ELSE 63])
\* str.rstrip(chars)
RStrip(str, chars) ==
  LET keep == {i \in 1..Len(str) : str[i] \notin chars}
  IN  IF keep = {} THEN << >>
      ELSE SubSeq(str, 1, CHOOSE i \in keep : \A j \in keep : j <= i)
\* the characters str.rstrip() removes from an ASCII string
Whitespace == {9, 10, 11, 12, 13, 28, 29, 30, 31, 32}
\* f'{str:10}'
Pad10(str) == str \o [i \in 1..(10 - Len(str)) |-> 32]
\* str.lower() of an ASCII string
Lower(str) == [i \in 1..Len(str) |-> IF str[i] \in 65..90 THEN str[i] + 32 ELSE str[i]]

(***************************************************************************)
(* File.py: numbers and times of a directory entry                         *)
(***************************************************************************)
\* File.le_word
LeWord(data) == At(data, 0) + 256 * At(data, 1)

\* File.word_to_le
WordToLe(val) ==
  LET v == IF val = None THEN 0 ELSE val[1] % 65536
  IN  FromSeq(<<v % 256, v \div 256>>)

\* struct.pack('<BH', b, h)
PackBH(b, h) == FromSeq(<<b, h % 256, h \div 256>>)

\* File.unpack_triple
UnpackTriple(data) == <<At(data, 0) % 32, (At(data, 2) % 128) * 256 + At(data, 1)>>

\* File.triple_to_addr
TripleToAddr(data) == UnpackTriple(data)[1] * 16384 + UnpackTriple(data)[2] + 16384

\* File.triple_to_len
TripleToLen(data) == UnpackTriple(data)[1] * 16384 + UnpackTriple(data)[2]

\* File.triple_to_exec
TripleToExec(data) ==
  IF At(data, 0) = 255 THEN None
  ELSE Some(UnpackTriple(data)[1] * 16384 + UnpackTriple(data)[2])

\* File.triple_to_line
TripleToLine(data) ==
  IF At(data, 0) = 255 THEN None ELSE Some(At(data, 2) * 256 + At(data, 1))

\* mutant: the page of the address is stored without the step down
AddrToTriple_PageOfAddress(addr) ==
  IF addr = None THEN Zeros(3)
  ELSE PackBH((addr[1] \div 16384) % 32, (addr[1] % 16384) + 32768)

\* File.addr_to_triple
AddrToTriple(addr) ==
  IF addr = None THEN Zeros(3)
  ELSE PackBH(((addr[1] \div 16384) - 1) % 32, (addr[1] % 16384) + 32768)

\* File.len_to_triple
LenToTriple(len) ==
  IF len = None THEN Zeros(3)
  ELSE PackBH((len[1] \div 16384) % 32, len[1] % 16384)

\* File.exec_to_triple
ExecToTriple(exec) ==
  IF exec = None THEN FromSeq(<<255, 255, 255>>)
  ELSE PackBH((exec[1] \div 16384) % 32, (exec[1] % 16384) + 32768)

\* File.line_to_triple
LineToTriple(line) ==
  IF line # None /\ line[1] # 0 /\ (line[1] < 0 \/ line[1] >= 65280)
  THEN Raise("ValueError")
  ELSE IF line = None THEN Ok(FromSeq(<<255, 255, 255>>))
  ELSE Ok(PackBH(0, line[1]))

\* the days of a month of the proleptic Gregorian calendar of datetime
DaysInMonth(year, month) ==
  IF month = 2
  THEN IF year % 4 = 0 /\ (year % 100 # 0 \/ year % 400 = 0) THEN 29 ELSE 28
  ELSE IF month \in {4, 6, 9, 11} THEN 30 ELSE 31

\* mutant: every month has 31 days
ValidDateTime_Days31(year, month, day, hours, mins, secs) ==
  /\ year \in 1..9999 /\ month \in 1..12
  /\ day >= 1 /\ day <= 31
  /\ hours \in 0..23 /\ mins \in 0..59 /\ secs \in 0..59

\* datetime(year, month, day, hours, mins, secs) returns, or raises ValueError
ValidDateTime(year, month, day, hours, mins, secs) ==
  /\ year \in 1..9999 /\ month \in 1..12
  /\ day >= 1 /\ day <= DaysInMonth(year, month)
  /\ hours \in 0..23 /\ mins \in 0..59 /\ secs \in 0..59

MASTERDOS_TIME == 0
BDOS_TIME == 1
BDOS17_TIME == 2

\* File.pack_time
PackTime(time, format) ==
  IF time = None THEN Ok(Zeros(5))
  ELSE
  LET t == time[1]
      data == CASE format = MASTERDOS_TIME ->
                     <<t.day, t.month, t.year % 100, t.hour, t.minute>>
                [] format = BDOS_TIME ->
                     <<t.day, t.month, t.year - 1900, t.hour, t.minute>>
                [] format = BDOS17_TIME ->
                     <<t.day, 128 + t.month * 8, t.year - 1900,
                       t.hour * 8 + (t.minute % 8),
                       ((t.minute \div 8) % 8) * 32 + t.second \div 2>>
  IN  IF \E i \in 1..5 : data[i] \notin 0..255 THEN Raise("ValueError")
      ELSE Ok(FromSeq(data))

\* File.unpack_time
UnpackTime(data) ==
  IF At(data, 0) = 255 THEN None
  ELSE
  LET new == At(data, 1) \div 128 = 1
      year0 == At(data, 2)
      month == IF new THEN (At(data, 1) \div 8) % 16 ELSE At(data, 1)
      day == At(data, 0)
      hours == IF new THEN At(data, 3) \div 8 ELSE At(data, 3)
      mins == IF new THEN (At(data, 4) \div 32) * 8 + (At(data, 3) % 8)
              ELSE At(data, 4)
      secs == IF new THEN (At(data, 4) % 32) * 2 ELSE 0
      year == year0 + 1900 + (IF year0 < 80 THEN 100 ELSE 0)
  IN  IF ValidDateTime(year, month, day, hours, mins, secs)
      THEN Some([year |-> year, month |-> month, day |-> day, hour |-> hours,
                 minute |-> mins, second |-> secs])
      ELSE None

\* File.is_sam_file_type
IsSamFileType(type) == type >= 16

\* the slice [lo:hi] of a sequence of n items, as Python resolves it
PySlice(n, lo, hi) ==
  LET norm(i) == IF i < 0 THEN Max(i + n, 0) ELSE Min(i, n)
  IN  norm(lo)..(norm(hi) - 1)

\* mutant: the tracks of side 1 are counted from 128, without the step back
\* over the 48 track numbers between the sides
ContigSectorMap_NoSideStep(sectors, start_track, start_sector, spt) ==
  LET offset == (start_track - 4) * spt + (start_sector - 1)
  IN  PySlice(1560, offset, offset + sectors)

\* File.contig_sector_map: the set bits of the 1560-bit map
ContigSectorMap(sectors, start_track, start_sector, spt) ==
  LET offset == (start_track - 4 - (IF start_track < 80 THEN 0 ELSE 128 - 80)) * spt
                  + (start_sector - 1)
  IN  PySlice(1560, offset, offset + sectors)

\* bitarray.tobytes of a little-endian map of nbits bits (a multiple of 8)
BitsToBytes(ones, nbits) ==
  [size |-> nbits \div 8,
   nz |-> [o \in {b \div 8 : b \in ones} |->
             LET bit(j) == IF 8 * o + j \in ones THEN 2 ^ j ELSE 0
             IN  bit(0) + bit(1) + bit(2) + bit(3) + bit(4) + bit(5) + bit(6) + bit(7)]]

\* bitarray.frombytes on an empty little-endian map: the set bits
BytesToBits(b) ==
  UNION {{8 * o + j : j \in {k \in 0..7 : (b.nz[o] \div (2 ^ k)) % 2 = 1}} :
           o \in DOMAIN b.nz}

(***************************************************************************)
(* File.py: the File object and the directory entry codec.  Optional       *)
(* fields hold None or Some(value); sector_map is the size of the bitarray *)
(* and the set of its set bits.                                            *)
(***************************************************************************)
\* File.__init__
NewFile ==
  [type |-> 0, data |-> Zeros(0), entry |-> Zeros(256), hidden |-> FALSE,
   protected |-> FALSE, name_raw |-> Zeros(0), name |-> << >>,
   start_track |-> None, start_sector |-> None,
   sector_map |-> [size |-> 0, ones |-> {}], sectors |-> 0,
   start |-> None, length |-> None, execute |-> None, time |-> None,
   dir |-> None, data_var |-> None, screen_mode |-> None]

\* File.from_dir, for data of 256 bytes.  (common, the file before the
\* fields that depend on its type are set, is handed to Typed, and its
\* result to Dir, so that each is computed once.)
FromDir(data) ==
  LET type == At(data, 0) % 32
      ones == BytesToBits(Slice(data, 15, 15 + 195))
      zx_start == LeWord(Slice(data, 214, 214 + 2))
      zx_length == LeWord(Slice(data, 212, 212 + 2))
      zx_execute == LeWord(Slice(data, 218, 218 + 2))
      zx_datavar == <<97 + (At(data, 216) % 64) - 1>>
      sam_start == TripleToAddr(Slice(data, 236, 236 + 3))
      sam_length == TripleToLen(Slice(data, 239, 239 + 3))
      sam_execute == TripleToExec(Slice(data, 242, 242 + 3))
      sam_datavar == DecodeAscii(Slice(data, 222, 222 + (At(data, 221) % 16)))
      Zx(common) == [common EXCEPT !.start = Some(zx_start), !.length = Some(zx_length)]
      Sam(common) == [common EXCEPT !.start = Some(sam_start), !.length = Some(sam_length)]
      Typed(common) ==
        CASE type = 1 -> [Zx(common) EXCEPT
                            !.execute = IF At(data, 219) = 255 THEN None
                                        ELSE Some(zx_execute)]
          [] type = 2 -> [Zx(common) EXCEPT !.data_var = Some(zx_datavar)]
          [] type = 3 -> [Zx(common) EXCEPT !.data_var = Some(zx_datavar \o <<36>>)]
          [] type = 4 -> [Zx(common) EXCEPT
                            !.execute = IF At(data, 219) = 0 THEN None
                                        ELSE Some(zx_execute)]
          [] type = 5 -> [common EXCEPT !.length = Some(49152)]
          [] type = 7 -> Zx(common)
          [] type = SPECIAL -> [common EXCEPT !.length = Some(common.sectors * 512)]
          [] type = 9 -> [common EXCEPT !.length = Some(131073)]
          [] type = 10 -> [common EXCEPT
                             !.length = Some(At(data, 210) * 65536 + zx_length)]
          [] type = 11 -> [common EXCEPT !.length = Some(510)]
          [] type = 16 -> [Sam(common) EXCEPT
                             !.execute = TripleToLine(Slice(data, 242, 242 + 3))]
          [] type = 17 -> [Sam(common) EXCEPT !.data_var = Some(sam_datavar)]
          [] type = 18 -> [Sam(common) EXCEPT !.data_var = Some(sam_datavar \o <<36>>)]
          [] type = 19 -> [Sam(common) EXCEPT !.execute = sam_execute]
          [] type = 20 -> [Sam(common) EXCEPT
                             !.screen_mode = Some(1 + (At(data, 221) % 4))]
          [] type = 22 -> Sam(common)
          [] type = 23 -> Sam(common)
          [] OTHER -> common
      Dir(typed) ==
        [typed EXCEPT
           !.dir = IF type = 21 THEN Some(At(data, 250))
                   ELSE IF IsSamFileType(type) /\ At(data, 254) \notin {0, 255}
                        THEN Some(At(data, 254))
                        ELSE None]
  IN  Dir(Typed(
        [NewFile EXCEPT
           !.entry = data,
           !.type = type,
           !.hidden = (At(data, 0) \div 128) % 2 = 1,
           !.protected = (At(data, 0) \div 64) % 2 = 1,
           !.name_raw = Slice(data, 1, 1 + 10),
           !.name = RStrip(SubSeq(DecodeAscii(Slice(data, 1, 1 + 10)), 1, 10), {32, 0}),
           !.start_track = Some(At(data, 13)),
           !.start_sector = Some(At(data, 14)),
           !.sector_map = [size |-> 195 * 8, ones |-> ones],
           !.sectors = Cardinality(ones),
           !.time = IF IsSamFileType(type) THEN UnpackTime(Slice(data, 245, 245 + 5))
                    ELSE None]))

\* data[i] = v on a bytearray
SetByte(b, i, v) == SetSlice(b, i, i + 1, FromSeq(<<v>>))

\* the value File.to_dir gives self.sectors
ToDirSectors(self) == self.data.size \div DataBytesPerSector(self.type)

\* File.to_dir: the entry, or the exception it raises.  (The entry with the
\* fields of every type set is handed to Typed, and its result to Timed.)
ToDir(self, start_track, start_sector, spt, timefmt) ==
  IF self.type = 0 THEN Ok(self.entry)
  ELSE
  LET sectors == ToDirSectors(self)
      sector_map == ContigSectorMap(sectors, start_track, start_sector, spt)
      d0 == SetByte(self.entry, 0,
                    self.type + (IF self.hidden THEN 128 ELSE 0)
                              + (IF self.protected THEN 64 ELSE 0))
      d1 == SetSlice(d0, 1, 1 + 10, EncodeAscii(Pad10(self.name)))
      d2 == SetSlice(d1, 11, 11 + 2, FromSeq(<<sectors \div 256, sectors % 256>>))
      d3 == SetByte(d2, 13, start_track)
      d4 == SetByte(d3, 14, start_sector)
      d5 == SetSlice(d4, 15, 15 + 195, BitsToBytes(sector_map, 1560))
      Line(data, line) ==
        IF line.raised # "None" THEN line
        ELSE Ok(SetSlice(data, 242, 242 + 3, line.val))
      Typed(data) ==
        CASE self.type = 1 ->
               Ok(SetSlice(data, 218, 218 + 2,
                           IF self.execute = None THEN FromSeq(<<255, 255>>)
                           ELSE WordToLe(self.execute)))
          [] self.type = 4 ->
               Ok(SetSlice(SetSlice(SetSlice(data, 212, 212 + 2, WordToLe(self.length)),
                                    214, 214 + 2, WordToLe(self.start)),
                           218, 218 + 2, WordToLe(self.execute)))
          [] self.type = 10 ->
               IF self.length # None /\ (self.length[1] \div 65536) \notin 0..255
               THEN Raise("ValueError")
               ELSE Ok(SetSlice(SetByte(data, 210,
                                        IF self.length = None THEN 0
                                        ELSE self.length[1] \div 65536),
                                212, 212 + 2, WordToLe(self.length)))
          [] self.type = 16 -> Line(data, LineToTriple(self.execute))
          [] self.type = 19 ->
               Ok(SetSlice(SetSlice(SetSlice(data, 236, 236 + 3, AddrToTriple(self.start)),
                                    239, 239 + 3, LenToTriple(self.length)),
                           242, 242 + 3, ExecToTriple(self.execute)))
          [] OTHER -> Ok(data)
      Packed(typed, time) ==
        IF time.raised # "None" THEN time
        ELSE Ok(SetSlice(typed.val, 245, 245 + 5, time.val))
      Timed(typed) ==
        IF typed.raised # "None" THEN typed
        ELSE IF ~IsSamFileType(self.type) THEN typed
        ELSE Packed(typed, PackTime(self.time, timefmt))
  IN  IF sectors > 65535 THEN Raise("struct.error")
      ELSE IF start_track \notin 0..255 \/ start_sector \notin 0..255
      THEN Raise("ValueError")
      ELSE Timed(Typed(d5))

\* File.code_data_header
CodeDataHeader(self) ==
  LET len == LenToTriple(self.length)
      addr == AddrToTriple(self.start)
      h0 == SetByte(Zeros(9), 0, self.type)
      h1 == SetSlice(h0, 1, 1 + 2, Slice(len, 1, 3))
      h3 == SetSlice(h1, 3, 3 + 2, Slice(addr, 1, 3))
      h5 == SetSlice(h3, 5, 5 + 2, FromSeq(<<255, 255>>))
      h7 == SetByte(h5, 7, At(len, 0))
  IN  SetByte(h7, 8, At(addr, 0))

\* File.from_code_bytes, for an ASCII filename; start and execute are the
\* keyword arguments (Some(32768) and None when left out)
FromCodeBytes(data, filename, start, execute) ==
  LET chunk_size == DataBytesPerSector(CODE)
      Padded(new, body) ==
        [new EXCEPT !.data = Cat(body, Zeros((-body.size) % chunk_size)),
                    !.sectors = (body.size + ((-body.size) % chunk_size))
                                  \div chunk_size]
      WithData(new) == Padded(new, Cat(CodeDataHeader(new), data))
  IN  WithData([FromDir(Zeros(256)) EXCEPT
                  !.type = CODE,
                  !.name = filename,
                  !.name_raw = FromSeq(Pad10(filename)),
                  !.length = Some(data.size),
                  !.start = start,
                  !.execute = execute])

(***************************************************************************)
(* Disk.py: the Disk object, decoded from and encoded to a container       *)
(***************************************************************************)
\* Disk.__init__
NewDisk ==
  [type |-> "SAMDOS", dir_tracks |-> 4, label |-> None, serial |-> None,
   files |-> << >>]

\* mutant: the directory-track count is taken as stored
FromImageHeader_NoClamp(entry0) ==
  LET byte210 == At(entry0, 210)
      bdos == Slice(entry0, 232, 232 + 4) = FromSeq(<<66, 68, 79, 83>>)
      master == ~bdos /\ byte210 # 0 /\ byte210 # 255
      label_raw ==
        IF bdos /\ byte210 # 0
        THEN Some(Cat(Slice(entry0, 210, 210 + 10), Slice(entry0, 250, 250 + 6)))
        ELSE IF master /\ byte210 # 42 THEN Some(Slice(entry0, 210, 210 + 10))
        ELSE None
  IN  [NewDisk EXCEPT
         !.type = IF bdos THEN "BDOS" ELSE IF master THEN "MASTERDOS" ELSE "SAMDOS",
         !.dir_tracks = IF master THEN 4 + At(entry0, 255) ELSE 4,
         !.serial = IF master THEN Some(LeWord(Slice(entry0, 252, 252 + 2))) ELSE None,
         !.label = IF label_raw = None \/ label_raw[1].size = 0 THEN None
                   ELSE Some(RStrip([i \in 1..label_raw[1].size |->
                                       At(label_raw[1], i - 1) % 128],
                                    Whitespace))]

\* the head of Disk.from_image: the disk before the directory is read
FromImageHeader(entry0) ==
  LET byte210 == At(entry0, 210)
      bdos == Slice(entry0, 232, 232 + 4) = FromSeq(<<66, 68, 79, 83>>)
      master == ~bdos /\ byte210 # 0 /\ byte210 # 255
      label_raw ==
        IF bdos /\ byte210 # 0
        THEN Some(Cat(Slice(entry0, 210, 210 + 10), Slice(entry0, 250, 250 + 6)))
        ELSE IF master /\ byte210 # 42 THEN Some(Slice(entry0, 210, 210 + 10))
        ELSE None
  IN  [NewDisk EXCEPT
         !.type = IF bdos THEN "BDOS" ELSE IF master THEN "MASTERDOS" ELSE "SAMDOS",
         !.dir_tracks = IF master THEN Max(4, Min(4 + At(entry0, 255), 39)) ELSE 4,
         !.serial = IF master THEN Some(LeWord(Slice(entry0, 252, 252 + 2))) ELSE None,
         !.label = IF label_raw = None \/ label_raw[1].size = 0 THEN None
                   ELSE Some(RStrip([i \in 1..label_raw[1].size |->
                                       At(label_raw[1], i - 1) % 128],
                                    Whitespace))]

\* mutant: one sector more than the sector count of the file is read
FromImageStep_OneMore(st, img, i) ==
  LET Decoded(decoded) ==
        IF decoded.type # 0
        THEN [st EXCEPT !.files =
                Append(@, [decoded EXCEPT !.data =
                             ReadData(img, decoded.type, decoded.sectors + 1,
                                      decoded.start_track[1],
                                      decoded.start_sector[1]).data])]
        ELSE IF decoded.name = << >> THEN [st EXCEPT !.stop = TRUE]
        ELSE st
      Read(entry) ==
        IF entry.raised # "None" THEN [st EXCEPT !.raised = entry.raised]
        ELSE IF entry.val.size # 256 THEN [st EXCEPT !.raised = "IndexError"]
        ELSE Decoded(FromDir(entry.val))
  IN  IF st.stop \/ st.raised # "None" THEN st
      ELSE Read(ReadDir(img, i))

\* one iteration of the directory loop of Disk.from_image; st.stop is set by
\* break, st.raised by an exception
FromImageStep(st, img, i) ==
  LET Decoded(decoded) ==
        IF decoded.type # 0
        THEN [st EXCEPT !.files =
                Append(@, [decoded EXCEPT !.data =
                             ReadData(img, decoded.type, decoded.sectors,
                                      decoded.start_track[1],
                                      decoded.start_sector[1]).data])]
        ELSE IF decoded.name = << >> THEN [st EXCEPT !.stop = TRUE]
        ELSE st
      Read(entry) ==
        IF entry.raised # "None" THEN [st EXCEPT !.raised = entry.raised]
        ELSE IF entry.val.size # 256 THEN [st EXCEPT !.raised = "IndexError"]
        ELSE Decoded(FromDir(entry.val))
  IN  IF st.stop \/ st.raised # "None" THEN st
      ELSE Read(ReadDir(img, i))

\* the directory loop of Disk.from_image, iterations lo .. hi-1
RECURSIVE FromImageLoop(_, _, _, _)
FromImageLoop(st, img, lo, hi) ==
  IF hi <= lo \/ st.stop \/ st.raised # "None" THEN st
  ELSE IF hi = lo + 1 THEN FromImageStep(st, img, lo)
  ELSE LET mid == (lo + hi) \div 2
           left == FromImageLoop(st, img, lo, mid)
       IN  IF {left} # {} THEN FromImageLoop(left, img, mid, hi) ELSE st

\* Disk.from_image: the disk, or the exception raised
FromImage(img) ==
  LET Done(head, st) ==
        IF st.raised # "None" THEN Raise(st.raised)
        ELSE Ok([head EXCEPT !.files = st.files])
      Dir(head) ==
        Done(head, FromImageLoop([files |-> << >>, stop |-> FALSE,
                                  raised |-> "None"],
                                 img, 0, head.dir_tracks * img.spt * 2))
      Sector(entry0) ==
        IF entry0.raised # "None" THEN entry0
        ELSE IF entry0.val.size < 256 THEN Raise("IndexError")
        ELSE Dir(FromImageHeader(entry0.val))
  IN  Sector(ReadSector(img, 0, 1))

\* one iteration of the loop of Disk.to_image on the file of place i;
\* st.files are the files of the disk, whose sectors field to_dir sets
ToImageStep(st, dsk, spt, i) ==
  LET this == st.files[i]
      timefmt == IF dsk.type = "MASTERDOS" THEN MASTERDOS_TIME ELSE BDOS_TIME
      files == IF this.type = 0 THEN st.files
               ELSE [st.files EXCEPT ![i].sectors = ToDirSectors(this)]
      DirWritten(wd, wr) ==
        IF wr.raised # "None"
        THEN [st EXCEPT !.raised = wr.raised, !.files = files, !.image = wd.image]
        ELSE [image |-> wr.val, track |-> wd.track, sector |-> wd.sector,
              index |-> st.index + 1, raised |-> "None", files |-> files]
      DataWritten(entry, wd) ==
        IF wd.raised # "None"
        THEN [st EXCEPT !.raised = wd.raised, !.files = files, !.image = wd.image]
        ELSE DirWritten(wd, WriteDir(wd.image, st.index, entry.val))
      Encoded(entry) ==
        IF entry.raised # "None"
        THEN [st EXCEPT !.raised = entry.raised, !.files = files]
        ELSE DataWritten(entry, WriteData(st.image, this.type, st.track,
                                          st.sector, this.data))
  IN  IF st.raised # "None" THEN st
      ELSE IF st.index >= dsk.dir_tracks * spt * 2
      THEN [st EXCEPT !.raised = "RuntimeError"]
      ELSE Encoded(ToDir(this, st.track, st.sector, st.image.spt, timefmt))

\* the loop of Disk.to_image, files of places lo .. hi-1
RECURSIVE ToImageLoop(_, _, _, _, _)
ToImageLoop(st, dsk, spt, lo, hi) ==
  IF hi <= lo \/ st.raised # "None" THEN st
  ELSE IF hi = lo + 1 THEN ToImageStep(st, dsk, spt, lo)
  ELSE LET mid == (lo + hi) \div 2
           left == ToImageLoop(st, dsk, spt, lo, mid)
       IN  IF {left} # {} THEN ToImageLoop(left, dsk, spt, mid, hi) ELSE st

\* mutant: the data area starts at track 4 whatever the directory holds
ToImage_DataFromTrack4(dsk, spt) ==
  IF spt <= 0
  THEN [image |-> None, track |-> 0, sector |-> 0, index |-> 0,
        raised |-> "ValueError", files |-> dsk.files]
  ELSE ToImageLoop([image |-> NewImage("MGT", spt), track |-> 4,
                    sector |-> 1, index |-> 0, raised |-> "None",
                    files |-> dsk.files],
                   dsk, spt, 1, Len(dsk.files) + 1)

\* Disk.to_image: .raised is the exception or "None", .image the container
\* returned, .files the files of the disk after the call
ToImage(dsk, spt) ==
  IF spt <= 0
  THEN [image |-> None, track |-> 0, sector |-> 0, index |-> 0,
        raised |-> "ValueError", files |-> dsk.files]
  ELSE ToImageLoop([image |-> NewImage("MGT", spt), track |-> dsk.dir_tracks,
                    sector |-> 1, index |-> 0, raised |-> "None",
                    files |-> dsk.files],
                   dsk, spt, 1, Len(dsk.files) + 1)

\* fnmatch.translate: the index of the ] that closes the class opened by the
\* [ at pat[j], or 0 when the [ stands for itself; a ! and then a ] right
\* after the [ belong to the class
ClassEnd(pat, j) ==
  LET n == Len(pat)
      k1 == IF j + 1 <= n /\ pat[j + 1] = 33 THEN j + 2 ELSE j + 1
      k2 == IF k1 <= n /\ pat[k1] = 93 THEN k1 + 1 ELSE k1
      closing == {k \in k2..n : pat[k] = 93}
  IN  IF closing = {} THEN 0
      ELSE CHOOSE k \in closing : \A other \in closing : k <= other

\* the characters that the class [stuff] of a pattern stands for: those it
\* lists and those of its ranges lo-hi, or all the others after a leading !
InClass(ch, stuff) ==
  LET negated == stuff[1] = 33
      body == IF negated THEN Tail(stuff) ELSE stuff
      IsRange(k) == k > 1 /\ k < Len(body) /\ body[k] = 45
      listed == \/ \E k \in 1..Len(body) : body[k] = ch /\ ~IsRange(k)
                \/ \E k \in 1..Len(body) :
                     IsRange(k) /\ body[k - 1] <= ch /\ ch <= body[k + 1]
  IN  IF negated THEN ~listed ELSE listed

\* re.match of the expression that fnmatch.translate makes of pat, on the
\* characters of name from i on and the characters of pat from j on: * stands
\* for any characters, ? for one, [stuff] for one of a class, every other
\* character for itself
RECURSIVE GlobMatch(_, _, _, _)
GlobMatch(name, pat, i, j) ==
  IF j > Len(pat) THEN i > Len(name)
  ELSE IF pat[j] = 42
  THEN GlobMatch(name, pat, i, j + 1)
         \/ (i <= Len(name) /\ GlobMatch(name, pat, i + 1, j))
  ELSE IF pat[j] = 63
  THEN i <= Len(name) /\ GlobMatch(name, pat, i + 1, j + 1)
  ELSE IF pat[j] = 91 /\ ClassEnd(pat, j) # 0
  THEN /\ i <= Len(name)
       /\ InClass(name[i], SubSeq(pat, j + 1, ClassEnd(pat, j) - 1))
       /\ GlobMatch(name, pat, i + 1, ClassEnd(pat, j) + 1)
  ELSE i <= Len(name) /\ name[i] = pat[j] /\ GlobMatch(name, pat, i + 1, j + 1)

\* fnmatch.fnmatch(name.lower(), pattern.lower())
FnMatch(name, pattern) == GlobMatch(Lower(name), Lower(pattern), 1, 1)

\* Disk.delete: the files that stay
Delete(dsk, pattern) ==
  LET keep == {i \in 1..Len(dsk.files) : ~FnMatch(dsk.files[i].name, pattern)}
      RECURSIVE Pick(_)
      Pick(n) == IF n = 0 THEN << >>
                 ELSE IF n \in keep THEN Append(Pick(n - 1), dsk.files[n])
                 ELSE Pick(n - 1)
  IN  [dsk EXCEPT !.files = Pick(Len(dsk.files))]

(***************************************************************************)
(* Specification SpecData: file data written to and read from a container. *)
(* A container is constructed or opened, then at most one payload is       *)
(* written with write_data, then at most one sector is overwritten with a  *)
(* chosen chain pointer, then read_data is called.                         *)
(***************************************************************************)
\* a chained and a contiguous type
DataTypes == {CODE, SPECIAL}
\* n bytes with byte i * 170 set to i + 1, so that each chunk is recognised
Payload(n) ==
  [size |-> n, nz |-> [o \in {i * 170 : i \in 0..((n - 1) \div 170)} |-> (o \div 170) + 1]]
PayloadSizes == {0, 510, 1020, 1024, 1530}
\* where payloads start: the first data sector, the last sector of side 0,
\* the last two sectors of side 1
StartInputs(spt) == {<<4, 1>>, <<79, spt>>, <<207, spt - 1>>, <<207, spt>>}
\* the chain pointers stored in an overwritten sector: the end mark, the two
\* first data sectors, track 80, sector 0, bytes that name no sector
PointerInputs == {<<0, 0>>, <<4, 1>>, <<4, 2>>, <<80, 1>>, <<4, 0>>, <<255, 255>>}
\* the sectors that are overwritten
DamageInputs == {<<4, 1>>, <<4, 2>>}
CountInputs == {0, 1, 3, 5}
ReadStartInputs(spt) ==
  {<<4, 1>>, <<207, spt - 1>>, <<207, spt>>, <<0, 0>>, <<335, spt>>}

InitData ==
  /\ image = NewImage("MGT", 10)
  /\ call = NoCall
  /\ ret = NoRet
  /\ disk = None /\ file = None /\ walk = None /\ steps = 0

\* Disk.write_data on the container as constructed or opened
CallWriteData(type, track, sector, data) ==
  /\ Fresh
  /\ call' = [op |-> "write_data", type |-> type, track |-> track,
              sector |-> sector, data |-> data]
  /\ LET r == WriteData(image, type, track, sector, data)
     IN  /\ image' = r.image
         /\ ret' = [raised |-> r.raised,
                    val |-> IF r.raised = "None" THEN <<r.track, r.sector>>
                            ELSE None]
  /\ steps' = 1
  /\ UNCHANGED <<disk, file, walk>>

\* Image.write_sector of a chained sector that points to ptr
Damage(at, ptr) ==
  /\ Fresh \/ (call.op = "write_data" /\ ret.raised = "None")
  /\ LET r == WriteSector(image, at[1], at[2],
                          Cat(Payload(510), FromSeq(<<ptr[1], ptr[2]>>)))
     IN  /\ r.raised = "None"
         /\ image' = r.val
  /\ call' = [op |-> "damage", track |-> at[1], sector |-> at[2], ptr |-> ptr]
  /\ ret' = NoRet
  /\ steps' = 2
  /\ UNCHANGED <<disk, file, walk>>

\* Disk.read_data; walk is the number of sectors the call has read
CallReadData(type, sectors, track, sector) ==
  /\ call.op \in {"none", "construct", "open", "write_data", "damage"}
  /\ ret.raised = "None"
  /\ call' = [op |-> "read_data", type |-> type, sectors |-> sectors,
              track |-> track, sector |-> sector]
  /\ LET r == ReadData(image, type, sectors, track, sector)
     IN  /\ ret' = Ok(r.data)
         /\ walk' = r.reads
  /\ UNCHANGED <<image, disk, file, steps>>

NextData ==
  \/ \E kind \in Kinds, spt \in Spts : Construct(kind, spt)
  \/ \E data \in OpenInputs : Open(data)
  \/ \E type \in DataTypes, at \in StartInputs(image.spt), n \in PayloadSizes :
       CallWriteData(type, at[1], at[2], Payload(n))
  \/ \E at \in DamageInputs, ptr \in PointerInputs : Damage(at, ptr)
  \/ \E type \in DataTypes, sectors \in CountInputs,
        at \in ReadStartInputs(image.spt) :
       CallReadData(type, sectors, at[1], at[2])

SpecData == InitData /\ [][NextData]_vars

(***************************************************************************)
(* C8                                                                      *)
(***************************************************************************)
\* C8: read_data does not raise; when an address met during the walk is
\* invalid it returns the bytes of the sectors read before; the length of
\* the result is a multiple of the chunk size (510 chained, 512 contiguous)
\* and at most sector_count chunks, and at most sector_count sectors are
\* read.
C8_ReadDataTruncates ==
  call.op = "read_data" =>
    /\ ret.raised = "None"
    /\ walk <= call.sectors
    /\ ret.val.size % DataBytesPerSector(call.type) = 0
    /\ ret.val.size <= call.sectors * DataBytesPerSector(call.type)

(***************************************************************************)
(* C9                                                                      *)
(***************************************************************************)
\* C9: when write_data raises RuntimeError the buffer of the container is
\* what it was before the call.
C9_FailedWriteLeavesBuffer ==
  [][(call'.op = "write_data" /\ ret'.raised = "RuntimeError")
       => image'.data = image.data]_vars

(***************************************************************************)
(* Specification SpecEntry: a File is decoded from a directory entry (and  *)
(* given a payload), or made by from_code_bytes; its execute attribute may *)
(* be assigned; then it is encoded with to_dir, the entry decoded, given   *)
(* the same payload, and encoded again.                                    *)
(***************************************************************************)
\* the 32 type codes of FileType
FileTypes == 0..31
\* the name bytes of the entries: plain, padded with NUL, with a byte above
\* 127, ending in NUL after a space
NameInputs ==
  <<FromSeq(<<78, 65, 77, 69, 32, 32, 32, 32, 32, 32>>),
    FromSeq(<<102, 105, 108, 101, 0, 0, 0, 0, 0, 0>>),
    FromSeq(<<65, 128, 66, 32, 32, 32, 32, 32, 32, 32>>),
    FromSeq(<<97, 32, 98, 32, 0, 32, 32, 32, 32, 0>>)>>
\* bytes 210..255 of the entries: all 0; all 255; lengths, addresses and a
\* time of the older format (15/06/1995 12:34); the highest page and
\* offset, a time of the newer format (28/02/2100 23:59:58) and a
\* sub-directory
TailInputs ==
  <<Zeros(46),
    FromSeq([i \in 1..46 |-> 255]),
    FromSeq(<<0, 0, 52, 18, 0, 128, 2, 0, 5, 0, 0, 3, 100, 97, 116, 0, 0, 0, 0, 0,
              0, 0, 0, 0, 0, 0, 1, 0, 128, 0, 52, 18, 0, 10, 0, 15, 6, 95, 12, 34,
              0, 0, 0, 0, 0, 0>>),
    FromSeq(<<1, 0, 255, 255, 255, 255, 63, 0, 0, 255, 0, 31, 120, 255, 122, 0, 0,
              0, 0, 0, 0, 0, 0, 0, 0, 0, 255, 255, 255, 31, 255, 255, 31, 255, 127,
              28, 144, 200, 187, 253, 7, 0, 0, 0, 3, 0>>)>>
Variants == 1..4
\* the entry of type code type and flags, name and tail of variant v, with
\* the first v sectors at (4, 1) in its sector map
Entry(type, v) ==
  LET e0 == SetByte(Zeros(256), 0, type + (IF v = 2 THEN 128 ELSE IF v = 4 THEN 64 ELSE 0))
      e1 == SetSlice(e0, 1, 11, NameInputs[v])
      e2 == SetSlice(e1, 13, 16, FromSeq(<<4, 1, (2 ^ v) - 1>>))
  IN  SetSlice(e2, 210, 256, TailInputs[v])
EntryInputs == {Entry(type, v) : type \in FileTypes, v \in Variants}
\* filenames given to from_code_bytes: "A", "CODE file", "A\0"
FilenameInputs == {<<65>>, <<67, 79, 68, 69, 32, 102, 105, 108, 101>>, <<65, 0>>}
\* values assigned to execute
ExecuteInputs == {None, Some(0), Some(5), Some(32768), Some(65280)}
\* start track, start sector, spt and time format given to to_dir
ToDirInputs ==
  {<<4, 1, 10, BDOS_TIME>>, <<4, 1, 9, MASTERDOS_TIME>>, <<128, 1, 10, BDOS17_TIME>>}

InitEntry ==
  /\ file = NewFile
  /\ call = NoCall
  /\ ret = NoRet
  /\ image = None /\ disk = None /\ walk = None /\ steps = 0

\* File.from_dir, and a payload of two chunks attached to the file
CallFromDir(data) ==
  /\ call = NoCall
  /\ file' = [FromDir(data) EXCEPT
                !.data = Payload(2 * DataBytesPerSector(At(data, 0) % 32))]
  /\ call' = [op |-> "from_dir"]
  /\ UNCHANGED <<ret, image, disk, walk, steps>>

\* File.from_code_bytes
CallFromCodeBytes(data, filename) ==
  /\ call = NoCall
  /\ file' = FromCodeBytes(data, filename, Some(32768), None)
  /\ call' = [op |-> "from_code_bytes"]
  /\ UNCHANGED <<ret, image, disk, walk, steps>>

\* file.execute = value
SetExecute(value) ==
  /\ call.op \in {"from_dir", "from_code_bytes"}
  /\ file.type \in {1, 4, 16, 19}
  /\ file' = [file EXCEPT !.execute = value]
  /\ call' = [op |-> "set_execute"]
  /\ steps' = 1
  /\ UNCHANGED <<ret, image, disk, walk>>

\* first = file.to_dir(...); second = the same call on File.from_dir(first)
\* with file.data attached
CallRoundTrip(args) ==
  /\ call.op \in {"from_dir", "from_code_bytes", "set_execute"}
  /\ LET Again(first) ==
           Ok([first |-> first,
               second |-> IF first.raised # "None" \/ first.val.size # 256
                          THEN first
                          ELSE ToDir([FromDir(first.val) EXCEPT !.data = file.data],
                                     args[1], args[2], args[3], args[4])])
     IN  ret' = Again(ToDir(file, args[1], args[2], args[3], args[4]))
  /\ file' = IF file.type = 0 THEN file
             ELSE [file EXCEPT !.sectors = ToDirSectors(file)]
  /\ call' = [op |-> "roundtrip", start_track |-> args[1],
              start_sector |-> args[2], spt |-> args[3], timefmt |-> args[4],
              decoded |-> call.op = "from_dir"]
  /\ UNCHANGED <<image, disk, walk, steps>>

NextEntry ==
  \/ \E data \in EntryInputs : CallFromDir(data)
  \/ \E filename \in FilenameInputs : CallFromCodeBytes(Payload(600), filename)
  \/ \E value \in ExecuteInputs : SetExecute(value)
  \/ \E args \in ToDirInputs : CallRoundTrip(args)

SpecEntry == InitEntry /\ [][NextEntry]_vars

(***************************************************************************)
(* C3                                                                      *)
(***************************************************************************)
\* C3: for every 256-byte entry E that to_dir produces, decoding E with
\* from_dir, attaching the same payload and encoding again with the same
\* start track and sector, spt and time format returns the bytes of E.
C3_EntryRoundTrip ==
  (call.op = "roundtrip" /\ ret.val.first.raised = "None"
     /\ ret.val.first.val.size = 256)
    => ret.val.second = ret.val.first

(***************************************************************************)
(* Specification SpecDisk: a disk is decoded from a container, files may   *)
(* be deleted from it, it is encoded with to_image, and the container that *)
(* to_image returns is decoded again.  disk is the Disk object, image the  *)
(* container last decoded or encoded, ret the result of the last call.     *)
(***************************************************************************)
\* what the first directory entry of the containers holds besides its
\* file: nothing; the label "MASTER", serial 4660 and one more directory
\* track of the second dialect; the signature and the 16-character label
\* "BDOS DISK LABEL" of the third
Headers == 1..3
WithHeader(h, entry) ==
  CASE h = 1 -> entry
    [] h = 2 -> SetSlice(SetSlice(entry, 210, 220,
                                  FromSeq(<<77, 65, 83, 84, 69, 82, 32, 32, 32, 32>>)),
                         252, 256, FromSeq(<<52, 18, 0, 1>>))
    [] h = 3 -> SetSlice(SetSlice(SetSlice(entry, 210, 220,
                                           FromSeq(<<66, 68, 79, 83, 32, 68, 73, 83, 75, 32>>)),
                                  232, 236, FromSeq(<<66, 68, 79, 83>>)),
                         250, 256, FromSeq(<<76, 65, 66, 69, 76, 32>>))
\* the files of the containers, each a type code and a variant of Entry
FileLists ==
  {<< >>, <<<<19, 1>>>>, <<<<19, 3>>>>, <<<<19, 4>>>>, <<<<16, 3>>>>, <<<<4, 2>>>>,
   <<<<8, 1>>>>, <<<<19, 1>>, <<16, 2>>>>, <<<<20, 2>>, <<19, 3>>>>,
   <<<<1, 3>>, <<17, 1>>, <<10, 4>>>>}

\* the directory entries of the files of list, the first with header h
RECURSIVE PutEntries(_, _, _, _)
PutEntries(img, h, list, i) ==
  IF i > Len(list) THEN img
  ELSE PutEntries(WriteDir(img, i - 1,
                           IF i = 1 THEN WithHeader(h, Entry(list[i][1], list[i][2]))
                           ELSE Entry(list[i][1], list[i][2])).val,
                  h, list, i + 1)

\* a raw container with four chained sectors from (4, 1) and the directory
\* of the files of list; without files the header is in an unused entry
DiskImage(spt, h, list) ==
  IF list = << >>
  THEN WriteDir(NewImage("MGT", spt), 0, WithHeader(h, Zeros(256))).val
  ELSE PutEntries(WriteData(NewImage("MGT", spt), CODE, 4, 1, Payload(4 * 510)).image,
                  h, list, 1)
DiskImages == {DiskImage(spt, h, list) : spt \in Spts, h \in Headers, list \in FileLists}

\* the names given to Disk.delete: "NAME", "FILE"
PatternInputs == {<<78, 65, 77, 69>>, <<70, 73, 76, 69>>}

InitDisk ==
  /\ disk = NewDisk
  /\ image = NewImage("MGT", 10)
  /\ call = NoCall
  /\ ret = NoRet
  /\ file = None /\ walk = None /\ steps = 0

\* Disk.from_image on a container
CallFromImage(img) ==
  /\ call = NoCall
  /\ image' = img
  /\ disk' = FromImage(img).val
  /\ call' = [op |-> "from_image"]
  /\ UNCHANGED <<ret, file, walk, steps>>

\* Disk.delete; steps counts the calls
CallDelete(pattern) ==
  /\ call.op = "from_image"
  /\ disk' = Delete(disk, pattern)
  /\ ret' = Ok(Len(disk.files) - Len(Delete(disk, pattern).files))
  /\ call' = [op |-> "delete"]
  /\ steps' = steps + 1
  /\ UNCHANGED <<image, file, walk>>

\* Disk.to_image
CallToImage(spt) ==
  /\ call.op \in {"from_image", "delete", "add_code_file", "append"}
  /\ LET Done(r) ==
           /\ image' = IF r.raised = "None" THEN r.image ELSE image
           /\ disk' = [disk EXCEPT !.files = r.files]
           /\ ret' = [raised |-> r.raised, val |-> None]
     IN  Done(ToImage(disk, spt))
  /\ call' = [op |-> "to_image", spt |-> spt]
  /\ UNCHANGED <<file, walk, steps>>

\* Disk.from_image on the container that to_image returned; ret.val is the
\* disk decoded from it
CallFromImageAgain ==
  /\ call.op = "to_image" /\ ret.raised = "None"
  /\ ret' = FromImage(image)
  /\ call' = [op |-> "from_image_again", spt |-> call.spt]
  /\ UNCHANGED <<image, disk, file, walk, steps>>

NextDisk ==
  \/ \E img \in DiskImages : CallFromImage(img)
  \/ \E pattern \in PatternInputs : CallDelete(pattern)
  \/ \E spt \in Spts : CallToImage(spt)
  \/ CallFromImageAgain

SpecDisk == InitDisk /\ [][NextDisk]_vars

(***************************************************************************)
(* C1                                                                      *)
(***************************************************************************)
\* C1: for a disk whose files were all decoded, with files removed or not,
\* to_image returns and the disk decoded from its container has the type,
\* label, serial, directory-track count and number of files of the disk,
\* and each file's payload.
C1_DiskRoundTrip ==
  /\ call.op = "to_image" => ret.raised = "None"
  /\ call.op = "from_image_again" =>
       /\ ret.raised = "None"
       /\ ret.val.type = disk.type
       /\ ret.val.label = disk.label
       /\ ret.val.serial = disk.serial
       /\ ret.val.dir_tracks = disk.dir_tracks
       /\ Len(ret.val.files) = Len(disk.files)
       /\ \A i \in 1..Len(disk.files) : ret.val.files[i].data = disk.files[i].data

(***************************************************************************)
(* C2                                                                      *)
(***************************************************************************)
\* the fields of a file that C2 compares
C2_Fields(f) ==
  <<f.type, f.hidden, f.protected, f.name, f.data, f.start, f.length, f.execute,
    f.data_var, f.screen_mode, f.dir, f.time>>

\* C2: the disk decoded from a container, encoded and decoded again, has
\* the same files in the same order, each with the same type code, flags,
\* name, payload and type-dependent fields.
C2_FilesRoundTrip ==
  /\ (call.op = "to_image" /\ steps = 0) => ret.raised = "None"
  /\ (call.op = "from_image_again" /\ steps = 0) =>
       /\ ret.raised = "None"
       /\ Len(ret.val.files) = Len(disk.files)
       /\ \A i \in 1..Len(disk.files) :
            C2_Fields(ret.val.files[i]) = C2_Fields(disk.files[i])

(***************************************************************************)
(* Specification SpecCapacity: files are added to a new disk, or to a disk *)
(* decoded from an empty container of the second dialect with more         *)
(* directory tracks, and the disk is encoded with to_image.                *)
(***************************************************************************)
\* the values of byte 255 of the first entry: 5 and 39 directory tracks
ExtraTrackInputs == {1, 35}
\* an empty raw container whose first entry holds the header of the second
\* dialect and extra in byte 255
EmptyImage(extra) ==
  WriteDir(NewImage("MGT", 10), 0,
           SetByte(WithHeader(2, Zeros(256)), 255, extra)).val
\* the filename of the n-th file added: "F000", "F001", ...
Filename(n) == <<70, 48 + (n \div 100), 48 + ((n \div 10) % 10), 48 + (n % 10)>>
\* the sectors of the first file of a disk: one, or as many as the data area
\* of the disk has with 9 or with 10 sectors per track
FirstSizes(dsk) == {1} \cup {(160 - dsk.dir_tracks) * spt : spt \in Spts}
\* to_image is called on the disks whose number of files is at most 2 or
\* within EdgeWidth of the number that a directory holds
NearLimit(dsk) ==
  \/ Len(dsk.files) <= 2
  \/ \E spt \in Spts, d \in (-EdgeWidth)..EdgeWidth :
       Len(dsk.files) = dsk.dir_tracks * spt * 2 + d

\* list.insert(at, new): an index below zero counts from the end, and an
\* index outside the list is the nearer end
ListInsert(files, at, new) ==
  LET n == Len(files)
      pos == IF at < 0 THEN (IF at + n < 0 THEN 0 ELSE at + n)
             ELSE IF at > n THEN n ELSE at
  IN  SubSeq(files, 1, pos) \o <<new>> \o SubSeq(files, pos + 1, n)

\* Disk.add_code_file(path, filename=filename, at_index=at_index) for a file
\* of path that holds data
AddCodeFileAt(dsk, data, filename, at_index) ==
  LET Insert(kept, new) ==
        [kept EXCEPT !.files =
           ListInsert(@, IF at_index = None THEN Len(@) ELSE at_index[1], new)]
  IN  Insert(Delete(dsk, filename),
             FromCodeBytes(data, filename, Some(32768), None))

\* Disk.add_code_file(path, filename=filename) for a file of path that
\* holds data
AddCodeFile(dsk, data, filename) == AddCodeFileAt(dsk, data, filename, None)

InitCapacity ==
  /\ disk = NewDisk
  /\ image = NewImage("MGT", 10)
  /\ call = NoCall
  /\ ret = NoRet
  /\ file = None /\ walk = None /\ steps = 0

\* Disk.add_code_file of a file of sectors sectors with its header
CallAddCodeFile(sectors) ==
  /\ call.op \in {"none", "from_image", "add_code_file"}
  /\ Len(disk.files) < MaxFiles
  /\ disk' = AddCodeFile(disk, Zeros(sectors * 510 - 9), Filename(Len(disk.files)))
  /\ call' = [op |-> "add_code_file"]
  /\ UNCHANGED <<image, ret, file, walk, steps>>

NextCapacity ==
  \/ \E extra \in ExtraTrackInputs : CallFromImage(EmptyImage(extra))
  \/ \E sectors \in (IF disk.files = << >> THEN FirstSizes(disk) ELSE {1}) :
       CallAddCodeFile(sectors)
  \/ \E spt \in Spts : NearLimit(disk) /\ CallToImage(spt)

SpecCapacity == InitCapacity /\ [][NextCapacity]_vars

(***************************************************************************)
(* C10                                                                     *)
(***************************************************************************)
\* the payload sectors of the files of places 1 .. n
RECURSIVE C10_Sectors(_, _)
C10_Sectors(files, n) ==
  IF n = 0 THEN 0
  ELSE C10_Sectors(files, n - 1)
         + (files[n].data.size \div DataBytesPerSector(files[n].type))

\* C10: to_image(spt) raises RuntimeError if and only if the disk has more
\* than dir_tracks*spt*2 files or its payloads have more than
\* (160 - dir_tracks)*spt sectors; otherwise it returns.
C10_Capacity ==
  call.op = "to_image" =>
    /\ ret.raised \in {"None", "RuntimeError"}
    /\ ret.raised = "RuntimeError" <=>
         \/ Len(disk.files) > disk.dir_tracks * call.spt * 2
         \/ C10_Sectors(disk.files, Len(disk.files)) > (160 - disk.dir_tracks) * call.spt

\* a disk of 4 directory tracks whose two files have 1560 + 1 sectors has
\* been refused for 10 sectors per track
C10_Witness ==
  /\ call.op = "to_image" /\ call.spt = 10
  /\ disk.dir_tracks = 4 /\ Len(disk.files) = 2
  /\ C10_Sectors(disk.files, 2) = 1561
  /\ ret.raised = "RuntimeError"

(***************************************************************************)
(* Specification SpecStore: a container is constructed empty or opened     *)
(* from bytes that mark every sector, a payload is written with write_data *)
(* and read with read_data from the same start for the same type.          *)
(***************************************************************************)
\* the bytes b with offset o set to a value that depends on o, for every o
\* that is 200 more than a multiple of 256 (two marks in every sector of
\* the three layouts, none in the sector-ID bytes of a track header)
Marked(b) ==
  [size |-> b.size,
   nz |-> [o \in {200 + 256 * k : k \in 0..((b.size - 201) \div 256)}
             |-> 1 + ((o \div 256) % 255)] @@ b.nz]
\* the byte strings given to Image.open: the two sizes of each layout
StoredInputs ==
  {Marked(Zeros(n)) : n \in {819200, 737280, 819222, 737302}}
    \cup {Marked(EDSKBytes(v, spt)) : v \in {"seq", "skew"}, spt \in Spts}
\* a chained ZX type, the two contiguous types and a chained SAM type
StoreTypes == {1, SPECIAL, UNIDOS_DIR, CODE}
\* the numbers of chunks of a payload
ChunkCounts == 0..3
\* where the payloads start: the first data sector; two sectors before the
\* end of side 0; three, and one, before the end of side 1
StoreStarts(spt) == {<<4, 1>>, <<79, spt - 1>>, <<207, spt - 2>>, <<207, spt>>}

\* Disk.read_data with the type and start of the write_data call before it
\* and the number of chunks of its payload
CallReadBack ==
  /\ call.op = "write_data" /\ ret.raised = "None"
  /\ call' = [call EXCEPT !.op = "read_back"]
  /\ ret' = Ok(ReadData(image, call.type,
                        call.data.size \div DataBytesPerSector(call.type),
                        call.track, call.sector).data)
  /\ UNCHANGED <<image, disk, file, walk, steps>>

NextStore ==
  \/ \E kind \in Kinds, spt \in Spts : Construct(kind, spt)
  \/ \E data \in StoredInputs : Open(data)
  \/ \E type \in StoreTypes, at \in StoreStarts(image.spt), n \in ChunkCounts :
       CallWriteData(type, at[1], at[2], Payload(n * DataBytesPerSector(type)))
  \/ CallReadBack

SpecStore == InitImage /\ [][NextStore]_vars

(***************************************************************************)
(* C11                                                                     *)
(***************************************************************************)
\* the place of sector (track, sector) in the order of the walk: side 0
\* from track 0, then side 1 from track 128
C11_Index(spt, track, sector) ==
  ((track \div 128) * 80 + (track % 128)) * spt + (sector - 1)
\* the sector at place i of that order
C11_SectorAt(spt, i) ==
  <<IF i \div spt < 80 THEN i \div spt ELSE (i \div spt) + 48, (i % spt) + 1>>
\* the offsets of the buffers of a and b that differ
C11_Changed(a, b) ==
  {o \in DOMAIN a.nz \cup DOMAIN b.nz : At(a, o) # At(b, o)}
\* offset o is in one of the n sectors of img from place first
C11_InSectors(img, first, n, o) ==
  \E i \in first..(first + n - 1) :
    LET at == C11_SectorAt(img.spt, i)
        off == SectorOffset(img, at[1], at[2])
    IN  off.raised = "None" /\ o \in off.val..(off.val + 511)

\* C11: write_data of a payload of n chunks that fits in the sectors that
\* remain from the start returns, changes nothing outside the n sectors of
\* the walk from the start, and read_data of n sectors from the same start
\* for the same type returns the payload.
C11_WriteReadBack ==
  [][/\ (/\ call'.op = "write_data"
         /\ C11_Index(image.spt, call'.track, call'.sector)
              + (call'.data.size \div DataBytesPerSector(call'.type))
              <= 160 * image.spt)
       => /\ ret'.raised = "None"
          /\ image'.data.size = image.data.size
          /\ \A o \in C11_Changed(image.data, image'.data) :
               C11_InSectors(image, C11_Index(image.spt, call'.track, call'.sector),
                             call'.data.size \div DataBytesPerSector(call'.type), o)
     /\ call'.op = "read_back" => ret'.val = call.data]_vars

(***************************************************************************)
(* Disk.bam                                                                *)
(***************************************************************************)
\* bitarray.__or__: the operands must have the same length
BitOr(a, b) ==
  IF a.size # b.size THEN Raise("ValueError")
  ELSE Ok([size |-> a.size, ones |-> a.ones \cup b.ones])

\* functools.reduce(operator.or_, ...) from the map of files[i] on, acc the
\* value reduced so far
RECURSIVE BamFrom(_, _, _)
BamFrom(acc, files, i) ==
  IF acc.raised # "None" \/ i > Len(files) THEN acc
  ELSE BamFrom(BitOr(acc.val, files[i].sector_map), files, i + 1)

\* mutant: the maps are combined with and
Bam_And(dsk) ==
  IF dsk.files = << >> THEN Raise("TypeError")
  ELSE Ok([size |-> dsk.files[1].sector_map.size,
           ones |-> {b \in dsk.files[1].sector_map.ones :
                       \A i \in 1..Len(dsk.files) : b \in dsk.files[i].sector_map.ones}])

\* Disk.bam: reduce without an initial value raises TypeError on no files
Bam(dsk) ==
  IF dsk.files = << >> THEN Raise("TypeError")
  ELSE BamFrom(Ok(dsk.files[1].sector_map), dsk.files, 2)

(***************************************************************************)
(* Specification SpecBam: a disk is decoded from a container or starts     *)
(* empty, files are added, the disk may be encoded and decoded again, and  *)
(* bam is called.                                                          *)
(***************************************************************************)
\* the sectors of the files added
AddedSizes == {1, 2}
\* the most files of a disk that files are added to
BamFiles == 3

\* Disk.from_image on the container that to_image has returned
CallFromImageBack ==
  /\ call.op = "to_image" /\ ret.raised = "None"
  /\ disk' = FromImage(image).val
  /\ call' = [op |-> "from_image"]
  /\ UNCHANGED <<image, ret, file, walk, steps>>

\* Disk.bam
CallBam ==
  /\ call.op \in {"none", "from_image", "add_code_file"}
  /\ ret' = Bam(disk)
  /\ call' = [op |-> "bam"]
  /\ UNCHANGED <<image, disk, file, walk, steps>>

NextBam ==
  \/ \E img \in DiskImages : CallFromImage(img)
  \/ \E sectors \in AddedSizes : Len(disk.files) < BamFiles /\ CallAddCodeFile(sectors)
  \/ \E spt \in Spts : CallToImage(spt)
  \/ CallFromImageBack
  \/ CallBam

SpecBam == InitDisk /\ [][NextBam]_vars

(***************************************************************************)
(* C12                                                                     *)
(***************************************************************************)
\* C12: bam returns the map whose set bits are those set in the sector_map
\* of some file of the disk, and raises when the disk has no files.
C12_BamIsUnion ==
  call.op = "bam" =>
    IF disk.files = << >> THEN ret.raised # "None"
    ELSE /\ ret.raised = "None"
         /\ ret.val.size = 1560
         /\ \A b \in 0..1559 :
              b \in ret.val.ones
                <=> \E i \in 1..Len(disk.files) : b \in disk.files[i].sector_map.ones

\* bam has returned on a disk of three files, two of them with maps that
\* have no bit in common and one with no bit set
C12_Witness ==
  /\ call.op = "bam" /\ ret.raised = "None"
  /\ Len(disk.files) = 3
  /\ disk.files[1].sector_map.ones # {}
  /\ disk.files[2].sector_map.ones # {}
  /\ disk.files[1].sector_map.ones \cap disk.files[2].sector_map.ones = {}
  /\ disk.files[3].sector_map.ones = {}

(***************************************************************************)
(* Specification SpecDir: dir_position is called, or a container is        *)
(* constructed empty or opened from bytes that mark every sector, and      *)
(* directory entries are written with write_dir and read with read_dir.    *)
(***************************************************************************)
\* the most entries of a directory
MaxEntries == 39 * 10 * 2
\* the indexes given to dir_position
PositionInputs == (-2)..(MaxEntries + 1)
\* the indexes given to write_dir and read_dir: no entry, the two entries
\* of the first sector, the first entry of the second, the last entry of
\* a directory of 4 tracks of 10 sectors, the last of the largest
IndexInputs == {-1, 0, 1, 2, 79, MaxEntries - 1}
\* an entry with its first and last bytes set
MarkedEntry == [size |-> 256, nz |-> (0 :> 19) @@ (255 :> 254)]
EntryArgs == {Zeros(256), MarkedEntry, Zeros(255), Zeros(257)}

\* Disk.dir_position
CallDirPosition(index, spt) ==
  /\ call = NoCall
  /\ call' = [op |-> "dir_position", index |-> index, spt |-> spt]
  /\ ret' = Ok(DirPosition(index, spt))
  /\ UNCHANGED <<image, disk, file, walk, steps>>

\* Disk.write_dir on the container as constructed or opened, or after one
\* write_dir that returned; steps counts the calls
CallWriteDir(index, entry) ==
  /\ Fresh \/ (call.op = "write_dir" /\ ret.raised = "None" /\ steps < 2)
  /\ call' = [op |-> "write_dir", index |-> index, entry |-> entry]
  /\ LET r == WriteDir(image, index, entry)
     IN  /\ image' = IF r.raised = "None" THEN r.val ELSE image
         /\ ret' = [raised |-> r.raised, val |-> None]
  /\ steps' = steps + 1
  /\ UNCHANGED <<disk, file, walk>>

\* Disk.read_dir
CallReadDir(index) ==
  /\ Fresh \/ call.op = "write_dir"
  /\ call' = [op |-> "read_dir", index |-> index, after |-> call]
  /\ ret' = ReadDir(image, index)
  /\ UNCHANGED <<image, disk, file, walk, steps>>

NextDir ==
  \/ \E index \in PositionInputs, spt \in Spts : CallDirPosition(index, spt)
  \/ \E kind \in Kinds, spt \in Spts : Construct(kind, spt)
  \/ \E data \in StoredInputs : Open(data)
  \/ \E index \in IndexInputs, entry \in EntryArgs : CallWriteDir(index, entry)
  \/ \E index \in IndexInputs : CallReadDir(index)

SpecDir == InitImage /\ [][NextDir]_vars

(***************************************************************************)
(* C13                                                                     *)
(***************************************************************************)
\* C13: dir_position(index, spt) is (index div 2*spt,
\* 1 + (index mod 2*spt) div 2, (index mod 2)*256); for 0 <= index <
\* dir_tracks*spt*2 the track is below dir_tracks, the sector in 1..spt, the
\* offset 0 or 256, and the index is recovered from the triple, so that
\* different indexes have different triples; 0 -> (0,1,0), 1 -> (0,1,256),
\* 79 with spt 10 -> (3,10,256), 71 with spt 9 -> (3,9,256).
C13_DirPosition ==
  call.op = "dir_position" =>
    LET i == call.index
        spt == call.spt
        pos == ret.val
    IN  /\ ret.raised = "None"
        /\ pos[1] * (2 * spt) + (pos[2] - 1) * 2 + (pos[3] \div 256) = i
        /\ pos[2] \in 1..spt
        /\ pos[3] \in {0, 256}
        /\ \A dir_tracks \in DirTracks :
             (0 <= i /\ i < dir_tracks * spt * 2) => (0 <= pos[1] /\ pos[1] < dir_tracks)
        /\ i = 0 => pos = <<0, 1, 0>>
        /\ i = 1 => pos = <<0, 1, 256>>
        /\ (i = 79 /\ spt = 10) => pos = <<3, 10, 256>>
        /\ (i = 71 /\ spt = 9) => pos = <<3, 9, 256>>

\* dir_position has been called for the last entry of a directory of 39
\* tracks of 9 sectors
C13_Witness ==
  /\ call.op = "dir_position" /\ call.index = 39 * 9 * 2 - 1 /\ call.spt = 9
  /\ ret = Ok(<<38, 9, 256>>)

(***************************************************************************)
(* Specification SpecTriple: a start address, a length or an execute       *)
(* address is encoded as three bytes and the bytes are decoded; three      *)
(* bytes are decoded as an execute address.                                *)
(***************************************************************************)
\* the pages of the values: the 32 of a triple and two more
MaxPage == 33
\* no value, and the values around the ends of each page and of the low
\* byte of the offset
ValueInputs ==
  {None} \cup {Some(p * 16384 + o + d) : p \in 0..MaxPage, o \in {0, 256, 8192, 16384},
                                         d \in (-EdgeWidth)..EdgeWidth}
\* the triples decoded as an execute address: first bytes with and without
\* the bits above the page, the mark of no address, low and high offsets
TripleInputs ==
  {FromSeq(<<b0, b1, b2>>) : b0 \in {0, 31, 32, 159, 254, 255}, b1 \in {0, 255},
                             b2 \in {0, 127, 128, 255}}

\* File.addr_to_triple
CallAddrToTriple(addr) ==
  /\ call = NoCall
  /\ call' = [op |-> "addr_to_triple", value |-> addr]
  /\ ret' = Ok(AddrToTriple(addr))
  /\ UNCHANGED <<image, disk, file, walk, steps>>

\* File.len_to_triple
CallLenToTriple(len) ==
  /\ call = NoCall
  /\ call' = [op |-> "len_to_triple", value |-> len]
  /\ ret' = Ok(LenToTriple(len))
  /\ UNCHANGED <<image, disk, file, walk, steps>>

\* File.exec_to_triple
CallExecToTriple(exec) ==
  /\ call = NoCall
  /\ call' = [op |-> "exec_to_triple", value |-> exec]
  /\ ret' = Ok(ExecToTriple(exec))
  /\ UNCHANGED <<image, disk, file, walk, steps>>

\* File.triple_to_addr of the bytes addr_to_triple returned
CallTripleToAddr ==
  /\ call.op = "addr_to_triple"
  /\ call' = [op |-> "triple_to_addr", encoded |-> TRUE, value |-> call.value,
              triple |-> ret.val]
  /\ ret' = Ok(TripleToAddr(ret.val))
  /\ UNCHANGED <<image, disk, file, walk, steps>>

\* File.triple_to_len of the bytes len_to_triple returned
CallTripleToLen ==
  /\ call.op = "len_to_triple"
  /\ call' = [op |-> "triple_to_len", encoded |-> TRUE, value |-> call.value,
              triple |-> ret.val]
  /\ ret' = Ok(TripleToLen(ret.val))
  /\ UNCHANGED <<image, disk, file, walk, steps>>

\* File.triple_to_exec of the bytes exec_to_triple returned, or of data
CallTripleToExec(encoded, data) ==
  /\ call.op = (IF encoded THEN "exec_to_triple" ELSE "none")
  /\ call' = [op |-> "triple_to_exec", encoded |-> encoded,
              value |-> IF encoded THEN call.value ELSE None, triple |-> data]
  /\ ret' = Ok(TripleToExec(data))
  /\ UNCHANGED <<image, disk, file, walk, steps>>

NextTriple ==
  \/ \E value \in ValueInputs :
       \/ CallAddrToTriple(value)
       \/ CallLenToTriple(value)
       \/ CallExecToTriple(value)
  \/ CallTripleToAddr
  \/ CallTripleToLen
  \/ CallTripleToExec(TRUE, ret.val)
  \/ \E data \in TripleInputs : CallTripleToExec(FALSE, data)

SpecTriple == InitImage /\ [][NextTriple]_vars

(***************************************************************************)
(* C14                                                                     *)
(***************************************************************************)
\* C14: a start address in 0x4000 .. 0x83fff, a length and an execute
\* address in 0 .. 0x7ffff are decoded from their triples; an absent
\* execute address encodes to a triple whose first byte is 0xff, a triple
\* whose first byte is 0xff decodes to absent, and an execute address that
\* is present never encodes to such a triple.
C14_TripleRoundTrip ==
  /\ (call.op = "triple_to_addr" /\ call.value # None
        /\ call.value[1] >= 16384 /\ call.value[1] < 540672)
       => ret.val = call.value[1]
  /\ (call.op = "triple_to_len" /\ call.value # None
        /\ call.value[1] >= 0 /\ call.value[1] < 524288)
       => ret.val = call.value[1]
  /\ (call.op = "triple_to_exec" /\ call.encoded /\ call.value # None
        /\ call.value[1] >= 0 /\ call.value[1] < 524288)
       => ret.val = call.value
  /\ (call.op = "triple_to_exec" /\ call.encoded /\ call.value = None)
       => ret.val = None
  /\ (call.op = "triple_to_exec" /\ At(call.triple, 0) = 255) => ret.val = None
  /\ call.op = "exec_to_triple" => (At(ret.val, 0) = 255 <=> call.value = None)

\* the start address 0x8000 has been encoded as 01 00 80 and decoded
C14_Witness ==
  /\ call.op = "triple_to_addr" /\ call.value = Some(32768)
  /\ call.triple = FromSeq(<<1, 0, 128>>)
  /\ ret = Ok(32768)

(***************************************************************************)
(* Specification SpecTime: unpack_time is called on five bytes.            *)
(***************************************************************************)
\* the bytes of the five places: day; month, plain and with the mark of
\* the newer format; year; hour; minute
TimeBytes ==
  <<{0, 1, 28, 29, 30, 31, 32, 255},
    {0, 1, 2, 4, 12, 13, 128, 144, 160, 224, 232, 255},
    {0, 79, 80, 96, 100, 200, 255},
    {0, 23, 24, 184, 191, 192, 255},
    {0, 29, 30, 59, 60, 253, 255}>>
TimeInputs ==
  {FromSeq(<<b0, b1, b2, b3, b4>>) : b0 \in TimeBytes[1], b1 \in TimeBytes[2],
                                     b2 \in TimeBytes[3], b3 \in TimeBytes[4],
                                     b4 \in TimeBytes[5]}

\* File.unpack_time
CallUnpackTime(data) ==
  /\ call = NoCall
  /\ call' = [op |-> "unpack_time", data |-> data]
  /\ ret' = Ok(UnpackTime(data))
  /\ UNCHANGED <<image, disk, file, walk, steps>>

NextTime == call = NoCall /\ \E data \in TimeInputs : CallUnpackTime(data)

SpecTime == InitImage /\ [][NextTime]_vars

(***************************************************************************)
(* C15                                                                     *)
(***************************************************************************)
\* the fields that the five bytes hold: with the top bit of the month byte
\* set the month is in its bits 3..6, the hour in the top five bits of the
\* hour byte, the minute in its low three bits and the top three bits of
\* the last byte, half the second in its low five bits
C15_Fields(data) ==
  LET b(i) == At(data, i)
      y == 1900 + b(2) + (IF b(2) < 80 THEN 100 ELSE 0)
  IN  IF b(1) >= 128
      THEN [year |-> y, month |-> (b(1) - 128) \div 8, day |-> b(0),
            hour |-> b(3) \div 8, minute |-> (b(4) \div 32) * 8 + (b(3) % 8),
            second |-> 2 * (b(4) % 32)]
      ELSE [year |-> y, month |-> b(1), day |-> b(0), hour |-> b(3),
            minute |-> b(4), second |-> 0]
\* the fields are a date of the calendar and a time of the day
C15_Valid(t) ==
  LET leap == (t.year % 4 = 0 /\ t.year % 100 # 0) \/ t.year % 400 = 0
      days == <<31, IF leap THEN 29 ELSE 28, 31, 30, 31, 30, 31, 31, 30, 31, 30, 31>>
  IN  /\ t.month \in 1..12
      /\ t.day \in 1..days[t.month]
      /\ t.hour < 24 /\ t.minute < 60 /\ t.second < 60

\* C15: unpack_time of five bytes does not raise; it returns absent when
\* byte 0 is 0xff or the fields are no date of the calendar and time of the
\* day, and the timestamp of the fields otherwise.
C15_UnpackTime ==
  call.op = "unpack_time" =>
    /\ ret.raised = "None"
    /\ ret.val = IF At(call.data, 0) = 255 \/ ~C15_Valid(C15_Fields(call.data))
                 THEN None
                 ELSE Some(C15_Fields(call.data))

\* day 31 of month 2 has been decoded as absent
C15_Witness ==
  /\ call.op = "unpack_time"
  /\ At(call.data, 0) = 31 /\ At(call.data, 1) = 2 /\ At(call.data, 3) = 23
  /\ ret = Ok(None)

(***************************************************************************)
(* Specification SpecHeader: a disk is decoded from a container whose      *)
(* first directory entry holds chosen header bytes.                        *)
(***************************************************************************)
\* byte 210: none, the mark of no header, '*', 'M', a space with the top
\* bit set, a control character
Byte210Inputs == {0, 255, 42, 77, 160, 1}
\* bytes 211..219: letters, one with the top bit set, then spaces and a tab,
\* one with the top bit set; or spaces only
LabelInputs ==
  {<<193, 66, 32, 9, 160, 32, 32, 32, 32>>, <<32, 32, 32, 32, 32, 32, 32, 32, 32>>}
\* bytes 232..235: "BDOS", "BDOs", nothing
SignatureInputs == {<<66, 68, 79, 83>>, <<66, 68, 79, 115>>, <<0, 0, 0, 0>>}
\* bytes 250..255: the end of a label, the two bytes of the serial, one
\* byte, the directory tracks above 4
TrailerInputs ==
  {<<0, 0, 0, 0, 0, 0>>, <<76, 65, 52, 18, 0, 1>>, <<32, 32, 255, 255, 0, 35>>,
   <<0, 0, 1, 0, 0, 36>>, <<9, 9, 0, 128, 0, 255>>}
\* the first directory entry: of no file, or of a CODE file
HeaderEntry(withfile, b210, label, sig, trailer) ==
  SetSlice(SetSlice(SetSlice(IF withfile THEN Entry(CODE, 1) ELSE Zeros(256),
                             210, 220, FromSeq(<<b210>> \o label)),
                    232, 236, FromSeq(sig)),
           250, 256, FromSeq(trailer))
\* the containers: raw, with the 22-byte header, with track headers
HeaderContainers ==
  {NewImage("MGT", 10), ImageOpen(Zeros(737302)).val,
   ImageOpen(EDSKBytes("skew", 10)).val}
HeaderImages ==
  {WriteDir(c, 0, HeaderEntry(withfile, b210, label, sig, trailer)).val :
     c \in HeaderContainers, withfile \in BOOLEAN, b210 \in Byte210Inputs,
     label \in LabelInputs, sig \in SignatureInputs, trailer \in TrailerInputs}

NextHeader == call = NoCall /\ \E img \in HeaderImages : CallFromImage(img)

SpecHeader == InitDisk /\ [][NextHeader]_vars

(***************************************************************************)
(* C16                                                                     *)
(***************************************************************************)
\* bytes lo .. hi-1 of e with the top bit cleared, without the whitespace
\* at the end
C16_Label(e, lo, hi) ==
  LET m == [i \in 1..(hi - lo) |-> At(e, lo + i - 1) % 128]
      kept == {i \in 1..(hi - lo) : \E j \in i..(hi - lo) : m[j] \notin Whitespace}
  IN  [i \in kept |-> m[i]]

\* C16: the disk decoded from a container whose first directory sector is e
\* is BDOS if bytes 232..235 are "BDOS", with the label of bytes 210..219
\* and 250..255 if byte 210 is not 0; else MASTERDOS if byte 210 is neither
\* 0 nor 0xff, with max(4, min(4 + byte 255, 39)) directory tracks, the
\* serial of bytes 252..253 and the label of bytes 210..219 unless byte 210
\* is '*'; else SAMDOS with 4 directory tracks, no serial and no label.
\* Labels have the top bits cleared and no whitespace at the end; the
\* directory tracks are 4..39.
C16_Classification ==
  (call.op = "from_image" /\ ReadSector(image, 0, 1).raised = "None") =>
    LET e == ReadSector(image, 0, 1).val
        b210 == At(e, 210)
        bdos == <<At(e, 232), At(e, 233), At(e, 234), At(e, 235)>> = <<66, 68, 79, 83>>
    IN  /\ disk # None
        /\ disk.dir_tracks \in 4..39
        /\ IF bdos
           THEN /\ disk.type = "BDOS"
                /\ b210 # 0 =>
                     disk.label = Some(C16_Label(Cat(Slice(e, 210, 220),
                                                     Slice(e, 250, 256)), 0, 16))
                /\ b210 = 0 => disk.label = None
           ELSE IF b210 \notin {0, 255}
           THEN /\ disk.type = "MASTERDOS"
                /\ disk.dir_tracks = Max(4, Min(4 + At(e, 255), 39))
                /\ disk.serial = Some(At(e, 252) + 256 * At(e, 253))
                /\ disk.label = IF b210 = 42 THEN None
                                ELSE Some(C16_Label(e, 210, 220))
           ELSE /\ disk.type = "SAMDOS"
                /\ disk.dir_tracks = 4
                /\ disk.serial = None
                /\ disk.label = None

\* a MASTERDOS disk has been decoded with a label whose top bits are
\* cleared and whose end is stripped, the serial 0x8000 and 39 tracks for
\* a stored 255
C16_Witness ==
  /\ call.op = "from_image"
  /\ disk.type = "MASTERDOS"
  /\ disk.label = Some(<<77, 65, 66>>)
  /\ disk.serial = Some(32768)
  /\ disk.dir_tracks = 39
  /\ Len(disk.files) = 1

(***************************************************************************)
(* C17                                                                     *)
(***************************************************************************)
\* the offsets of the buffer of img that hold the directory entry of index
C17_EntryRange(img, index) ==
  LET off == SectorOffset(img, index \div (2 * img.spt),
                          1 + ((index % (2 * img.spt)) \div 2))
  IN  IF off.raised # "None" THEN {}
      ELSE (off.val + (index % 2) * 256)..(off.val + (index % 2) * 256 + 255)

\* C17: write_dir of a 256-byte entry at an index that is not negative
\* returns, changes no byte of the container outside the entry, and
\* read_dir of the index then returns the entry; write_dir raises
\* IndexError for a negative index and ValueError for an entry that has
\* not 256 bytes, and the container is then unchanged.
C17_WriteDirFrame ==
  [][/\ call'.op = "write_dir" =>
          IF call'.index < 0
          THEN ret'.raised = "IndexError" /\ image' = image
          ELSE IF call'.entry.size # 256
          THEN ret'.raised = "ValueError" /\ image' = image
          ELSE /\ ret'.raised = "None"
               /\ image'.data.size = image.data.size
               /\ C11_Changed(image.data, image'.data)
                    \subseteq C17_EntryRange(image, call'.index)
               /\ ReadDir(image', call'.index) = Ok(call'.entry)
     /\ (call'.op = "read_dir" /\ call.op = "write_dir" /\ ret.raised = "None"
           /\ call'.index = call.index)
          => ret' = Ok(call.entry)]_vars

(***************************************************************************)
(* Specification SpecCode: a CODE file is made by from_code_bytes, put on  *)
(* a new disk, the disk is encoded with to_image and the container decoded *)
(* with from_image.  file is the file that from_code_bytes returned.       *)
(***************************************************************************)
\* the lengths of the bytes: with the 9-byte header below, at and above one
\* and two chunks
CodeSizes == {0, 1, 501, 502, 1011, 1012}
\* the length whose page count needs a sixth bit
LongSize == 524288
\* "A", "CODE file", "A\0", a name of 10 and one of 11 characters
CodeNames ==
  FilenameInputs \cup {<<84, 69, 78, 76, 69, 84, 84, 69, 82, 83>>,
                       <<69, 76, 69, 86, 69, 78, 67, 72, 65, 82, 83>>}
\* the default start, the ends of what a triple holds, and one below and
\* above
CodeStarts == {Some(32768), Some(16384), Some(0), Some(540671), Some(540672)}
CodeExecutes == {None, Some(0), Some(32768), Some(524287), Some(524288)}
\* the arguments of from_code_bytes; the long data is given with defaults
CodeArgs ==
  {<<Payload(n), name, start, exec>> :
     n \in CodeSizes, name \in CodeNames, start \in CodeStarts, exec \in CodeExecutes}
    \cup {<<Zeros(LongSize), <<65>>, Some(32768), None>>}

\* File.from_code_bytes(data, filename, start=start, execute=execute)
CallFromCodeBytesArgs(data, filename, start, execute) ==
  /\ call = NoCall
  /\ file' = FromCodeBytes(data, filename, start, execute)
  /\ call' = [op |-> "from_code_bytes", data |-> data, filename |-> filename,
              start |-> start, execute |-> execute]
  /\ UNCHANGED <<ret, image, disk, walk, steps>>

\* disk.files.append(file)
Append1 ==
  /\ call.op = "from_code_bytes"
  /\ disk' = [disk EXCEPT !.files = Append(@, file)]
  /\ call' = [op |-> "append"]
  /\ UNCHANGED <<ret, image, file, walk, steps>>

NextCode ==
  \/ call = NoCall /\ \E args \in CodeArgs :
       CallFromCodeBytesArgs(args[1], args[2], args[3], args[4])
  \/ Append1
  \/ \E spt \in Spts : CallToImage(spt)
  \/ CallFromImageAgain

InitCode ==
  /\ disk = NewDisk
  /\ image = NewImage("MGT", 10)
  /\ file = NewFile
  /\ call = NoCall
  /\ ret = NoRet
  /\ walk = None /\ steps = 0

SpecCode == InitCode /\ [][NextCode]_vars

(***************************************************************************)
(* C18                                                                     *)
(***************************************************************************)
\* C18: from_code_bytes(d, name, start, execute) returns a file of type 19
\* whose payload is 9 bytes, d, and zeros up to a multiple of 510, with
\* sectors = ceil((len(d) + 9) / 510), length = len(d) and the start given;
\* to_image of a disk that holds it returns, and the file decoded from the
\* container has its type, name, start, length and execute address and
\* bytes 9 .. 9 + len(d) - 1 of its payload.
C18_CodeFileRoundTrip ==
  /\ call.op = "from_code_bytes" =>
       /\ file.type = 19
       /\ file.data.size % 510 = 0
       /\ file.data.size >= call.data.size + 9
       /\ file.data.size < call.data.size + 9 + 510
       /\ Slice(file.data, 9, 9 + call.data.size) = call.data
       /\ Slice(file.data, 9 + call.data.size, file.data.size)
            = Zeros(file.data.size - 9 - call.data.size)
       /\ file.sectors = (call.data.size + 9 + 509) \div 510
       /\ file.length = Some(call.data.size)
       /\ file.start = call.start
  /\ call.op = "to_image" => ret.raised = "None"
  /\ call.op = "from_image_again" =>
       /\ ret.raised = "None"
       /\ Len(ret.val.files) = 1
       /\ ret.val.files[1].type = file.type
       /\ ret.val.files[1].name = file.name
       /\ ret.val.files[1].start = file.start
       /\ ret.val.files[1].length = file.length
       /\ ret.val.files[1].execute = file.execute
       /\ Slice(ret.val.files[1].data, 9, 9 + file.length[1])
            = Slice(file.data, 9, 9 + file.length[1])

(***************************************************************************)
(* Specification SpecFiles: add_code_file and delete on the file list of a *)
(* new Disk.                                                               *)
(***************************************************************************)
MaxListed == 3
\* filename arguments: none, "a", "A", "ab", "[a]" and "*"
ListedNames == {None, Some(<<97>>), Some(<<65>>), Some(<<97, 98>>),
               Some(<<91, 97, 93>>), Some(<<42>>)}
\* the path of the added file is b.bin
PathStem == <<98>>
\* at_index arguments: none, the ends, and one beyond the longest list
AtInputs == {None, Some(0), Some(1), Some(-1), Some(MaxListed + 1)}
\* patterns given to delete: "a", "A*", "[ab]", "?b" and "T"
DeletePatterns == {<<97>>, <<65, 42>>, <<91, 97, 98, 93>>, <<63, 98>>, <<84>>}

\* File.from_code_path: the name given, or the first 10 characters of the
\* path's base name without its extension
CodePathName(stem, filename) ==
  IF filename = None \/ filename[1] = << >>
  THEN SubSeq(stem, 1, Min(10, Len(stem)))
  ELSE filename[1]

\* Disk.add_code_file(path, filename=filename, at_index=at_index)
CallAddCodeFileAt(filename, at_index) ==
  /\ Len(disk.files) < MaxListed
  /\ disk' = AddCodeFileAt(disk, Zeros(0), CodePathName(PathStem, filename),
                           at_index)
  /\ call' = [op |-> "add_code_file_at",
              name |-> CodePathName(PathStem, filename), at_index |-> at_index]
  /\ ret' = NoRet
  /\ UNCHANGED <<image, file, walk, steps>>

\* Disk.delete(pattern)
CallDeleteFiles(pattern) ==
  /\ disk' = Delete(disk, pattern)
  /\ ret' = Ok(Len(disk.files) - Len(Delete(disk, pattern).files))
  /\ call' = [op |-> "delete_files", pattern |-> pattern]
  /\ UNCHANGED <<image, file, walk, steps>>

NextFiles ==
  \/ \E filename \in ListedNames, at_index \in AtInputs :
       CallAddCodeFileAt(filename, at_index)
  \/ \E pattern \in DeletePatterns : CallDeleteFiles(pattern)

SpecFiles == InitDisk /\ [][NextFiles]_vars

(***************************************************************************)
(* C19                                                                     *)
(***************************************************************************)
C19_Matching(files, pattern) ==
  {i \in 1..Len(files) : FnMatch(files[i].name, pattern)}

C19_Kept(files, pattern) ==
  LET Stays(f) == ~FnMatch(f.name, pattern)
  IN  SelectSeq(files, Stays)

C19_Named(files, name) ==
  {i \in 1..Len(files) : Lower(files[i].name) = Lower(name)}

\* C19: from a new Disk, every delete(pattern) returns the number of files
\* whose lower-cased name matches the lower-cased pattern and leaves the
\* others in their order; every add_code_file makes the list one longer when
\* no file had the new name, and puts the new file at at_index, or last
\* without one; and no two files of the list have the same name up to case.
C19_FileList ==
  [][/\ call'.op = "delete_files" =>
          /\ ret'.val = Cardinality(C19_Matching(disk.files, call'.pattern))
          /\ disk'.files = C19_Kept(disk.files, call'.pattern)
     /\ call'.op = "add_code_file_at" =>
          /\ C19_Named(disk.files, call'.name) = {} =>
               Len(disk'.files) = Len(disk.files) + 1
          /\ call'.at_index = None =>
               disk'.files[Len(disk'.files)].name = call'.name
          /\ (call'.at_index # None
                /\ call'.at_index[1] \in 0..(Len(disk'.files) - 1)) =>
               disk'.files[call'.at_index[1] + 1].name = call'.name
     /\ \A i \in 1..Len(disk'.files) :
          C19_Named(disk'.files, disk'.files[i].name) = {i}]_vars

(***************************************************************************)
(* C20                                                                     *)
(***************************************************************************)
\* a track of side 0 or 1 and a sector of the track
C20_IsSector(img, track, sector) ==
  /\ track \in 0..79 \cup 128..207
  /\ sector \in 1..img.spt

\* the sector that follows (track, sector) in the payload of a file: the one
\* in geometric order for a contiguous type, the one named by the last two
\* bytes of the sector for a chained type
C20_Follows(img, type, track, sector) ==
  IF type \in {SPECIAL, UNIDOS_DIR}
  THEN IF sector < img.spt THEN <<track, sector + 1>>
       ELSE IF track = 79 THEN <<128, 1>>
       ELSE <<track + 1, 1>>
  ELSE <<At(ReadSector(img, track, sector).val, 510),
         At(ReadSector(img, track, sector).val, 511)>>

\* n sectors from (track, sector) on are sectors of the disk that the
\* container finds, each after the one before it as C20_Follows says
RECURSIVE C20_ChainOnDisk(_, _, _, _, _)
C20_ChainOnDisk(img, type, n, track, sector) ==
  \/ n = 0
  \/ /\ C20_IsSector(img, track, sector)
     /\ ReadSector(img, track, sector).raised = "None"
     /\ \/ n = 1
        \/ C20_ChainOnDisk(img, type, n - 1,
                           C20_Follows(img, type, track, sector)[1],
                           C20_Follows(img, type, track, sector)[2])

\* the payload of n sectors from (track, sector) on: 512 bytes of each for
\* a contiguous type, the first 510 for a chained type
RECURSIVE C20_Payload(_, _, _, _, _)
C20_Payload(img, type, n, track, sector) ==
  IF n = 0 THEN [ok |-> TRUE, data |-> Zeros(0)]
  ELSE IF ReadSector(img, track, sector).raised # "None"
  THEN [ok |-> FALSE, data |-> Zeros(0)]
  ELSE LET Joined(sec, rest) ==
             [ok |-> sec.size = 512 /\ rest.ok,
              data |-> Cat(Slice(sec, 0, IF type \in {SPECIAL, UNIDOS_DIR}
                                         THEN 512 ELSE 510),
                           rest.data)]
       IN  Joined(ReadSector(img, track, sector).val,
                  IF n = 1 THEN [ok |-> TRUE, data |-> Zeros(0)]
                  ELSE C20_Payload(img, type, n - 1,
                                   C20_Follows(img, type, track, sector)[1],
                                   C20_Follows(img, type, track, sector)[2]))

\* C20: read_data of sector_count sectors of a chained type returns the first
\* 510 bytes of each sector, the first sector being the start given and each
\* later one the sector named by the last two bytes of the one before; of a
\* contiguous type it returns the 512 bytes of each sector, the sectors
\* taken in next_sector order.
C20_ReadDataChain ==
  (/\ call.op = "read_data"
   /\ C20_ChainOnDisk(image, call.type, call.sectors, call.track, call.sector))
  => /\ C20_Payload(image, call.type, call.sectors, call.track, call.sector).ok
     /\ ret.val = C20_Payload(image, call.type, call.sectors, call.track,
                              call.sector).data

(***************************************************************************)
(* C21                                                                     *)
(***************************************************************************)
\* the last two bytes of the sector at place i of the next_sector order
C21_Pointer(img, i) ==
  LET Last2(rd) == IF rd.raised = "None" /\ rd.val.size = 512
                   THEN <<At(rd.val, 510), At(rd.val, 511)>>
                   ELSE << >>
  IN  Last2(ReadSector(img, C11_SectorAt(img.spt, i)[1],
                       C11_SectorAt(img.spt, i)[2]))

\* C21: write_data of a chained type and a payload of at least 510 bytes,
\* of a length that is or is not a multiple of 510, leaves the sectors of the
\* file along the next_sector walk from the start: the last sector written
\* ends with the bytes 00 00, every earlier one with the track and sector of
\* the next, and the position after the last written sector is returned.
C21_ChainWritten ==
  (/\ call.op = "write_data"
   /\ ret.raised = "None"
   /\ ~IsContigDataType(call.type)
   /\ call.data.size >= 510)
  => LET n == call.data.size \div 510
         first == C11_Index(image.spt, call.track, call.sector)
     IN  /\ \A k \in 0..(n - 2) :
              C21_Pointer(image, first + k) = C11_SectorAt(image.spt, first + k + 1)
         /\ C21_Pointer(image, first + n - 1) = <<0, 0>>
         /\ ret.val = C11_SectorAt(image.spt, first + n)

(***************************************************************************)
(* Specification SpecMap: contig_sector_map called for a run of sectors of *)
(* a disk that is new or decoded from an empty container with 5 or 39      *)
(* directory tracks.                                                       *)
(***************************************************************************)
\* where runs start: the first two data tracks of the disk, the ends of the
\* sides, and the track that precedes the data region
MapTracks(dsk) ==
  {dsk.dir_tracks - 1, dsk.dir_tracks, dsk.dir_tracks + 1, 79, 128, 207}
\* the lengths of runs: none, one, a track with 9 sectors, more than a track,
\* the data regions of disks with 39 directory tracks, and all bits
MapCounts == {0, 1, 9, 11, 1089, 1210, 1560}

\* File.contig_sector_map(sectors, start_track, start_sector, spt)
CallContigSectorMap(sectors, start_track, start_sector, spt) ==
  /\ call.op \in {"none", "from_image"}
  /\ call' = [op |-> "contig_sector_map", sectors |-> sectors,
              start_track |-> start_track, start_sector |-> start_sector,
              spt |-> spt]
  /\ ret' = Ok(ContigSectorMap(sectors, start_track, start_sector, spt))
  /\ UNCHANGED <<image, disk, file, walk, steps>>

NextMap ==
  \/ \E extra \in ExtraTrackInputs : CallFromImage(EmptyImage(extra))
  \/ \E sectors \in MapCounts, start_track \in MapTracks(disk), spt \in Spts :
       \E start_sector \in {1, spt} :
         CallContigSectorMap(sectors, start_track, start_sector, spt)

SpecMap == InitDisk /\ [][NextMap]_vars

(***************************************************************************)
(* C22                                                                     *)
(***************************************************************************)
\* the run of the call lies in the data region of the disk
C22_InDataRegion ==
  /\ call.start_track \in (disk.dir_tracks)..79 \cup 128..207
  /\ call.start_sector \in 1..call.spt
  /\ C11_Index(call.spt, call.start_track, call.start_sector) + call.sectors
       <= 160 * call.spt

\* the bits from.. from + sectors - 1 of the call, counted from track base
C22_Run(base) ==
  LET from == (call.start_track - base
                 - (IF call.start_track < 80 THEN 0 ELSE 48)) * call.spt
              + (call.start_sector - 1)
  IN  from..(from + call.sectors - 1)

\* C22 as stated: contig_sector_map returns a 1560-bit map in which exactly
\* the sector_count bits from index (start_track - dir_tracks - (0 if
\* start_track < 80 else 48)) * spt + (start_sector - 1) on are set, dir_tracks
\* being the directory-track count of the disk, for every run inside the data
\* region.
C22_Stated ==
  (call.op = "contig_sector_map" /\ C22_InDataRegion)
  => /\ ret.val = C22_Run(disk.dir_tracks)
     /\ Cardinality(ret.val) = call.sectors

\* C22, amended: contig_sector_map returns a 1560-bit map in which exactly
\* the sector_count bits from index (start_track - 4 - (0 if start_track < 80
\* else 48)) * spt + (start_sector - 1) on are set, whatever the
\* directory-track count of the disk, for every run inside the data region;
\* the number of set bits is sector_count.
C22_ContigMap ==
  (call.op = "contig_sector_map" /\ C22_InDataRegion)
  => /\ ret.val = C22_Run(4)
     /\ ret.val \subseteq 0..1559
     /\ Cardinality(ret.val) = call.sectors

C22_Witness ==
  /\ call.op = "contig_sector_map"
  /\ C22_InDataRegion
  /\ disk.dir_tracks = 39
  /\ call.start_track = 128
  /\ call.start_sector = 1
  /\ call.spt = 10
  /\ call.sectors = 11
  /\ ret.val = 760..770

(***************************************************************************)
(* Specification SpecStamp: a timestamp given to pack_time, and the bytes  *)
(* returned given to unpack_time.                                          *)
(***************************************************************************)
TimeFormats == {MASTERDOS_TIME, BDOS_TIME, BDOS17_TIME}
\* the years at the ends of what the formats store, and one beyond
StampYears == {1900, 1979, 1980, 1999, 2000, 2079, 2080, 2155, 2156}
\* the datetime objects given: dates at the ends of months and years, times
\* at the ends of the day, minutes on both sides of a multiple of 8, odd and
\* even seconds
StampInputs ==
  LET all == {[year |-> y, month |-> mo, day |-> d, hour |-> h, minute |-> mi,
               second |-> sec] :
                y \in StampYears, mo \in {1, 2, 12}, d \in {1, 28, 29, 31},
                h \in {0, 23}, mi \in {0, 7, 8, 59}, sec \in {0, 1, 59}}
      dates == {t \in all : ValidDateTime(t.year, t.month, t.day, t.hour,
                                          t.minute, t.second)}
  IN  {None} \cup {Some(t) : t \in dates}

\* File.pack_time(time, format)
CallPackTime(time, format) ==
  /\ call = NoCall
  /\ call' = [op |-> "pack_time", time |-> time, format |-> format]
  /\ ret' = PackTime(time, format)
  /\ UNCHANGED <<image, disk, file, walk, steps>>

\* File.unpack_time of the bytes that pack_time returned
CallUnpackPacked ==
  /\ call.op = "pack_time"
  /\ ret.raised = "None"
  /\ call' = [call EXCEPT !.op = "unpack_packed"] @@ [data |-> ret.val]
  /\ ret' = Ok(UnpackTime(ret.val))
  /\ UNCHANGED <<image, disk, file, walk, steps>>

NextStamp ==
  \/ call = NoCall /\ \E time \in StampInputs, format \in TimeFormats :
       CallPackTime(time, format)
  \/ CallUnpackPacked

SpecStamp == InitImage /\ [][NextStamp]_vars

(***************************************************************************)
(* C23                                                                     *)
(***************************************************************************)
\* the years that a format stores
C23_Stored(format) ==
  IF format = MASTERDOS_TIME THEN 1980..2079 ELSE 1900..2155

\* the timestamp cut to what a format keeps: minutes, or even seconds
C23_Truncated(t, format) ==
  [t EXCEPT !.second = IF format = BDOS17_TIME THEN 2 * (@ \div 2) ELSE 0]

\* C23: for each format and every timestamp t of a year the format stores
\* (1980..2079 for the compact one, 1900..2155 for the others) pack_time
\* returns 5 bytes and unpack_time of them returns t cut to whole minutes,
\* or to even seconds for the extended format, whose bytes have the top bit
\* of the month byte set, and the others' not; an absent timestamp is packed
\* to 5 bytes that unpack to absent.
C23_TimeRoundTrip ==
  /\ (call.op = "pack_time" /\ call.time = None) =>
       ret.raised = "None" /\ ret.val.size = 5
  /\ (call.op = "pack_time" /\ call.time # None
        /\ call.time[1].year \in C23_Stored(call.format)) =>
       /\ ret.raised = "None"
       /\ ret.val.size = 5
       /\ At(ret.val, 1) >= 128 <=> call.format = BDOS17_TIME
  /\ (call.op = "unpack_packed" /\ call.time = None) => ret.val = None
  /\ (call.op = "unpack_packed" /\ call.time # None
        /\ call.time[1].year \in C23_Stored(call.format)) =>
       ret.val = Some(C23_Truncated(call.time[1], call.format))

(***************************************************************************)
(* C24                                                                     *)
(***************************************************************************)
\* the set bits of the map at bytes 15 .. 209 of a directory entry
C24_MapBits(entry) == BytesToBits(Slice(entry, 15, 210))

\* the count stored in big-endian order at bytes 11 and 12 of an entry
C24_StoredCount(entry) == At(entry, 11) * 256 + At(entry, 12)

\* the files of a decoded disk have the property
C24_Files(files) ==
  \A i \in 1..Len(files) :
    /\ files[i].sectors = Cardinality(C24_MapBits(files[i].entry))
    /\ files[i].sectors = Cardinality(files[i].sector_map.ones)
    /\ files[i].data.size
         <= files[i].sectors * DataBytesPerSector(files[i].type)

\* C24: every file that from_image returns has as its sector count the
\* number of set bits of the map at bytes 15 .. 209 of its directory entry,
\* whatever count the entry stores at bytes 11 and 12, and a payload of at
\* most that many chunks.
C24_BitmapCount ==
  /\ call.op = "from_image" => C24_Files(disk.files)
  /\ (call.op = "from_image_again" /\ ret.raised = "None") =>
       C24_Files(ret.val.files)

C24_Witness ==
  /\ call.op = "from_image"
  /\ \E i \in 1..Len(disk.files) :
       /\ disk.files[i].sectors = 3
       /\ C24_StoredCount(disk.files[i].entry) = 0
       /\ disk.files[i].data.size = 3 * 510

(***************************************************************************)
(* Specification SpecLayout: the calls of SpecCapacity, and from_image on  *)
(* the container that to_image returned.                                   *)
(***************************************************************************)
\* the sectors of the file added to a disk: the first as in SpecCapacity,
\* the second of one or two sectors, the later ones of one
LayoutSizes(dsk) ==
  IF dsk.files = << >> THEN FirstSizes(dsk)
  ELSE IF Len(dsk.files) < 2 THEN AddedSizes ELSE {1}

NextLayout ==
  \/ \E extra \in ExtraTrackInputs : CallFromImage(EmptyImage(extra))
  \/ \E sectors \in LayoutSizes(disk) : CallAddCodeFile(sectors)
  \/ \E spt \in Spts : NearLimit(disk) /\ CallToImage(spt)
  \/ CallFromImageAgain

SpecLayout == InitCapacity /\ [][NextLayout]_vars

(***************************************************************************)
(* C25                                                                     *)
(***************************************************************************)
\* the chunks of the payload of a file
C25_Chunks(f) == f.data.size \div DataBytesPerSector(f.type)

\* the chunks of the payloads of the files of places 1 .. n
RECURSIVE C25_Before(_, _)
C25_Before(files, n) ==
  IF n = 0 THEN 0 ELSE C25_Before(files, n - 1) + C25_Chunks(files[n])

\* the entry of directory slot i of img names file f and records as its
\* start the sector at place first of the next_sector order
C25_Slot(img, i, f, first) ==
  LET Holds(e) ==
        /\ e.raised = "None"
        /\ ToSeq(Slice(e.val, 1, 11)) = Pad10(f.name)
        /\ <<At(e.val, 13), At(e.val, 14)>> = C11_SectorAt(img.spt, first)
  IN  Holds(ReadDir(img, i))

\* C25: in the container that to_image returns the file of place i of the
\* list has directory slot i; the entry of the first file records the start
\* (dir_tracks, 1) and the entry of each later file the position after the
\* last sector of the file before it; from_image of the container returns
\* the files in the same order, their maps without a common bit, each with
\* as many set bits as its payload has chunks.
C25_Layout ==
  /\ (call.op = "to_image" /\ ret.raised = "None") =>
       \A i \in 1..Len(disk.files) :
         C25_Slot(image, i - 1, disk.files[i],
                  C11_Index(image.spt, disk.dir_tracks, 1)
                    + C25_Before(disk.files, i - 1))
  /\ call.op = "from_image_again" =>
       /\ ret.raised = "None"
       /\ Len(ret.val.files) = Len(disk.files)
       /\ \A i \in 1..Len(ret.val.files) :
            /\ ret.val.files[i].name = disk.files[i].name
            /\ ret.val.files[i].data = disk.files[i].data
            /\ Cardinality(ret.val.files[i].sector_map.ones)
                 = C25_Chunks(ret.val.files[i])
            /\ \A j \in 1..(i - 1) :
                 ret.val.files[i].sector_map.ones
                   \cap ret.val.files[j].sector_map.ones = {}

(***************************************************************************)
(* C26                                                                     *)
(***************************************************************************)
\* the place in the next_sector order where the payload of file i starts
C26_First(dsk, spt, i) ==
  C11_Index(spt, dsk.dir_tracks, 1) + C25_Before(dsk.files, i - 1)

\* the entry that to_image encodes for file i of the disk
C26_Entry(dsk, spt, i) ==
  ToDir(dsk.files[i],
        C11_SectorAt(spt, C26_First(dsk, spt, i))[1],
        C11_SectorAt(spt, C26_First(dsk, spt, i))[2],
        spt, IF dsk.type = "MASTERDOS" THEN MASTERDOS_TIME ELSE BDOS_TIME)

\* the payload read from the sectors of file i
C26_Stored(img, dsk, i) ==
  ReadData(img, dsk.files[i].type, C25_Chunks(dsk.files[i]),
           C11_SectorAt(img.spt, C26_First(dsk, img.spt, i))[1],
           C11_SectorAt(img.spt, C26_First(dsk, img.spt, i))[2]).data

\* C26: when to_image returns, no payload sector is a directory sector (a
\* sector of a track below dir_tracks of side 0) and no directory slot used
\* is outside them, every slot i below the number of files reads back the
\* entry encoded for file i, and the sectors of every file hold its payload.
C26_NoOverlap ==
  (call.op = "to_image" /\ ret.raised = "None") =>
    \A i \in 1..Len(disk.files) :
      /\ DirPosition(i - 1, image.spt)[1] < disk.dir_tracks
      /\ C26_First(disk, image.spt, i) >= disk.dir_tracks * image.spt
      /\ ReadDir(image, i - 1) = C26_Entry(disk, image.spt, i)
      /\ C26_Stored(image, disk, i) = disk.files[i].data

C26_Witness ==
  /\ call.op = "to_image" /\ ret.raised = "None"
  /\ disk.dir_tracks = 5
  /\ Len(disk.files) = 89
  /\ C25_Chunks(disk.files[2]) = 2
  /\ ReadDir(image, 88) = C26_Entry(disk, image.spt, 89)

(***************************************************************************)
(* C27                                                                     *)
(***************************************************************************)
\* start positions in the data region: its first and last sectors and the
\* sectors on both sides of the change of side
C27_Starts == {<<4, 1>>, <<79, 10>>, <<128, 1>>, <<207, 10>>}

\* the entry has 256 bytes, with the fields of f at their offsets
C27_Framed(e, f, at) ==
  /\ e.raised = "None"
  /\ e.val.size = 256
  /\ At(e.val, 0) % 32 = f.type
  /\ ToSeq(Slice(e.val, 1, 11)) = Pad10(f.name)
  /\ At(e.val, 11) * 256 + At(e.val, 12) = f.data.size \div 510
  /\ <<At(e.val, 13), At(e.val, 14)>> = at
  /\ Slice(e.val, 15, 210)
       = BitsToBytes(ContigSectorMap(f.data.size \div 510, at[1], at[2], 10),
                     1560)

\* C27: to_dir of a file that from_code_bytes made, with any filename and at
\* any start position of the data region, returns 256 bytes with type, name,
\* sector count, start and map at their offsets; to_image of a disk that
\* holds the file does not raise.
C27_EntryFrame ==
  /\ call.op = "from_code_bytes" =>
       \A at \in C27_Starts :
         C27_Framed(ToDir(file, at[1], at[2], 10, BDOS_TIME), file, at)
  /\ call.op = "to_image" => ret.raised = "None"

=============================================================================
